---- MODULE Spec2Model ----
(***************************************************************************)
(* astro-swarm: the Station's knowledge merge (DataManager), the event bus *)
(* and the per-robot reply channels, the simulation loop's dispatch        *)
(* (App::update) and the docking protocol of the robot threads.            *)
(***************************************************************************)
EXTENDS Naturals, Integers, Sequences, FiniteSets, TLC

(***************************************************************************)
(* Dimensions and value domains                                            *)
(***************************************************************************)
\* DataManager.map_width / map_height (and Map.width / Map.height): the
\* smallest grid a Map can be built on that has tiles outside the station zone.
map_width == 4
map_height == 3

\* Wall-clock readings of Utc::now() range over 0..MaxTime.
MaxTime == 1
Times == 0..MaxTime

Coords == (0..(map_width - 1)) \X (0..(map_height - 1))

station_x == map_width \div 2
station_y == map_height \div 2
StationCenter == <<station_x, station_y>>

abs_diff(a, b) == IF a >= b THEN a - b ELSE b - a

is_station_area(c) == abs_diff(c[1], station_x) <= 1 /\ abs_diff(c[2], station_y) <= 1

StationZone == {c \in Coords : is_station_area(c)}
NonZone == Coords \ StationZone

ResourceTypes == {"Energy", "Minerals", "SciencePoints"}

(***************************************************************************)
(* TileInfo and RobotKnowledge                                             *)
(***************************************************************************)
TileUnknown == [kind |-> "Unknown", resource_type |-> "none", amount |-> 0]
TileWalkable == [kind |-> "Walkable", resource_type |-> "none", amount |-> 0]
TileObstacle == [kind |-> "Obstacle", resource_type |-> "none", amount |-> 0]
TileStation == [kind |-> "Station", resource_type |-> "none", amount |-> 0]
TileResource(rt, amt) == [kind |-> "Resource", resource_type |-> rt, amount |-> amt]

ConcreteKinds == {"Walkable", "Obstacle", "Resource"}

RobotKnowledge_new ==
    [c \in Coords |-> IF c = StationCenter THEN TileStation ELSE TileUnknown]

update_tile(k, c, info) == IF c \in Coords THEN [k EXCEPT ![c] = info] ELSE k

get_tile(k, c) == IF c \in DOMAIN k THEN k[c] ELSE TileUnknown

\* A RobotKnowledge with its fields: RobotKnowledge::new(width, height)
\* inserts Unknown for every cell of the grid and then Station at the centre.
RobotKnowledge_of_NoStation(width, height) ==
    [map |-> [c \in (0..(width - 1)) \X (0..(height - 1)) |-> TileUnknown],
     width |-> width, height |-> height]

RobotKnowledge_of(width, height) ==
    [map |-> [c \in ((0..(width - 1)) \X (0..(height - 1)))
                      \cup {<<width \div 2, height \div 2>>} |->
                 IF c = <<width \div 2, height \div 2>> THEN TileStation ELSE TileUnknown],
     width |-> width, height |-> height]

\* update_tile without the comparison with width and height.
update_tile_of_Unchecked(K, c, info) ==
    [K EXCEPT !.map = [d \in (DOMAIN K.map) \cup {c} |-> IF d = c THEN info ELSE K.map[d]]]

\* RobotKnowledge::update_tile on that struct.
update_tile_of(K, c, info) ==
    IF c[1] < K.width /\ c[2] < K.height
    THEN [K EXCEPT !.map = [d \in (DOMAIN K.map) \cup {c} |-> IF d = c THEN info ELSE K.map[d]]]
    ELSE K

\* RobotKnowledge::get_tile on that struct.
get_tile_of(K, c) == IF c \in DOMAIN K.map THEN K.map[c] ELSE TileUnknown

get_station_coords(K) == <<K.width \div 2, K.height \div 2>>

(***************************************************************************)
(* GlobalTileInfo and DataManager                                          *)
(***************************************************************************)
NoUpdate == [kind |-> "None"]

GlobalPlain(kind, ts) ==
    [kind |-> kind, timestamp |-> ts, resource_type |-> "none", amount |-> 0, robot_id |-> 0]

GlobalUnknown == GlobalPlain("Unknown", 0)
GlobalStation == GlobalPlain("Station", 0)
GlobalWalkable(ts) == GlobalPlain("Walkable", ts)
GlobalObstacle(ts) == GlobalPlain("Obstacle", ts)
GlobalResource(rt, amt, ts, id) ==
    [kind |-> "Resource", timestamp |-> ts, resource_type |-> rt, amount |-> amt, robot_id |-> id]

DataManager_new ==
    [c \in Coords |-> IF is_station_area(c) THEN GlobalStation ELSE GlobalUnknown]

\* The robot tile as a candidate global entry stamped with `now`.
potential_update(tile, now_, robot_id) ==
    CASE tile.kind = "Unknown" -> NoUpdate
      [] tile.kind = "Walkable" -> GlobalWalkable(now_)
      [] tile.kind = "Obstacle" -> GlobalObstacle(now_)
      [] tile.kind = "Resource" ->
            GlobalResource(tile.resource_type, tile.amount, now_, robot_id)
      [] tile.kind = "Station" -> GlobalStation

\* should_update with the timestamp comparisons written >= : a tie overwrites.
should_update_TieOverwrites(current, new_info) ==
    IF current.kind = "Station" THEN FALSE
    ELSE IF new_info.kind = "Station" THEN TRUE
    ELSE IF current.kind = "Unknown" THEN TRUE
    ELSE IF current.kind = new_info.kind \/ "Resource" \in {current.kind, new_info.kind}
        THEN new_info.timestamp >= current.timestamp
    ELSE FALSE

\* The match of update_global_tile, arm by arm, in the source's order.
should_update(current, new_info) ==
    IF current.kind = "Station" THEN FALSE
    ELSE IF new_info.kind = "Station" THEN TRUE
    ELSE IF current.kind = "Unknown" THEN TRUE
    ELSE IF current.kind = "Walkable" /\ new_info.kind = "Walkable"
        THEN new_info.timestamp > current.timestamp
    ELSE IF current.kind = "Obstacle" /\ new_info.kind = "Obstacle"
        THEN new_info.timestamp > current.timestamp
    ELSE IF current.kind = "Resource" /\ new_info.kind = "Resource"
        THEN new_info.timestamp > current.timestamp
    ELSE IF current.kind = "Walkable" /\ new_info.kind = "Resource"
        THEN new_info.timestamp > current.timestamp
    ELSE IF current.kind = "Obstacle" /\ new_info.kind = "Resource"
        THEN new_info.timestamp > current.timestamp
    ELSE IF current.kind = "Resource" /\ new_info.kind = "Walkable"
        THEN new_info.timestamp > current.timestamp
    ELSE IF current.kind = "Resource" /\ new_info.kind = "Obstacle"
        THEN new_info.timestamp > current.timestamp
    ELSE FALSE

update_global_tile(gk, c, new_info) ==
    IF c \in DOMAIN gk
    THEN IF should_update(gk[c], new_info) THEN [gk EXCEPT ![c] = new_info] ELSE gk
    ELSE [d \in (DOMAIN gk) \cup {c} |-> IF d = c THEN new_info ELSE gk[d]]

\* MergeTile without the comparison with map_width and map_height.
MergeTile_Unchecked(gk, c, tile, now_, robot_id) ==
    IF c \in DOMAIN gk /\ gk[c].kind = "Station" /\ tile.kind # "Station" THEN gk
    ELSE IF potential_update(tile, now_, robot_id) = NoUpdate THEN gk
    ELSE update_global_tile(gk, c, potential_update(tile, now_, robot_id))

\* MergeTile that takes a report of Unknown as a report: it resets the entry.
MergeTile_UnknownErases(gk, c, tile, now_, robot_id) ==
    IF c[1] >= map_width \/ c[2] >= map_height THEN gk
    ELSE IF gk[c].kind = "Station" /\ tile.kind # "Station" THEN gk
    ELSE IF potential_update(tile, now_, robot_id) = NoUpdate
    THEN [gk EXCEPT ![c] = GlobalUnknown]
    ELSE update_global_tile(gk, c, potential_update(tile, now_, robot_id))

\* MergeTile without the station skip and without the conflict resolution: the
\* candidate is inserted as it comes.
MergeTile_InsertsCandidate(gk, c, tile, now_, robot_id) ==
    IF c[1] >= map_width \/ c[2] >= map_height THEN gk
    ELSE IF potential_update(tile, now_, robot_id) = NoUpdate THEN gk
    ELSE [gk EXCEPT ![c] = potential_update(tile, now_, robot_id)]

\* One iteration of the loop of merge_robot_knowledge, for the key c.
MergeTile(gk, c, tile, now_, robot_id) ==
    IF c[1] >= map_width \/ c[2] >= map_height THEN gk
    ELSE IF gk[c].kind = "Station" /\ tile.kind # "Station" THEN gk
    ELSE IF potential_update(tile, now_, robot_id) = NoUpdate THEN gk
    ELSE update_global_tile(gk, c, potential_update(tile, now_, robot_id))

\* The loop visits every key of knowledge.map once and an iteration touches
\* only the entry of its own key, so the result does not depend on the
\* HashMap's iteration order.
merge_robot_knowledge(gk, robot_id, knowledge_, now_) ==
    [c \in (DOMAIN gk) \cup
             {d \in DOMAIN knowledge_ :
                 d \in DOMAIN MergeTile(gk, d, knowledge_[d], now_, robot_id)} |->
        IF c \in DOMAIN knowledge_
        THEN MergeTile(gk, c, knowledge_[c], now_, robot_id)[c]
        ELSE gk[c]]

\* GlobalToTile with the Walkable and Obstacle arms exchanged.
GlobalToTile_Swapped(g) ==
    CASE g.kind = "Unknown" -> TileUnknown
      [] g.kind = "Walkable" -> TileObstacle
      [] g.kind = "Obstacle" -> TileWalkable
      [] g.kind = "Resource" -> TileResource(g.resource_type, g.amount)
      [] g.kind = "Station" -> TileStation

GlobalToTile(g) ==
    CASE g.kind = "Unknown" -> TileUnknown
      [] g.kind = "Walkable" -> TileWalkable
      [] g.kind = "Obstacle" -> TileObstacle
      [] g.kind = "Resource" -> TileResource(g.resource_type, g.amount)
      [] g.kind = "Station" -> TileStation

get_global_robot_knowledge(gk) ==
    [c \in Coords |-> IF c \in DOMAIN gk THEN GlobalToTile(gk[c]) ELSE RobotKnowledge_new[c]]

(***************************************************************************)
(* The World Grid (Map): terrain, station area, resource store             *)
(***************************************************************************)
\* Map.data: the obstacle cells of the grid the model runs on (the station area
\* is always cleared by Map::new).
Obstacles == {<<0, 0>>}

station_area ==
    {c \in Coords : c[1] \in {station_x - 1, station_x, station_x + 1}
                    /\ c[2] \in {station_y - 1, station_y, station_y + 1}}

\* is_obstacle that answers for the bounds and never reads Map.data.
is_obstacle_BoundsOnly(c) == c[1] >= map_width \/ c[2] >= map_height

is_obstacle(c) == IF c[1] >= map_width \/ c[2] >= map_height THEN TRUE ELSE c \in Obstacles

is_station(c) == c \in station_area

\* An absent entry of the resource store.
NoResource == [resource_type |-> "none", amount |-> 0]
Deposit(rt, amt) == [resource_type |-> rt, amount |-> amt]

\* The deposits placed at construction.
InitialResources ==
    [c \in Coords |->
        IF c = <<0, 1>> THEN Deposit("Energy", 700)
        ELSE IF c = <<1, 1>> THEN Deposit("Energy", 400)
        ELSE IF c = <<0, 2>> THEN Deposit("SciencePoints", 700)
        ELSE NoResource]

get_resource(res, c) == IF c \in DOMAIN res THEN res[c] ELSE NoResource

\* remove_resource that deletes whatever it finds.
remove_resource_DeletesAny(res, c) ==
    IF get_resource(res, c) = NoResource THEN res ELSE [res EXCEPT ![c] = NoResource]

\* remove_resource that returns the deposit and deletes nothing.
remove_resource_KeepsAll(res, c) == res

\* The store after Map::remove_resource: only Energy and Minerals are deleted.
remove_resource(res, c) ==
    IF get_resource(res, c) = NoResource THEN res
    ELSE IF get_resource(res, c).resource_type \in {"Energy", "Minerals"}
         THEN [res EXCEPT ![c] = NoResource]
         ELSE res

(***************************************************************************)
(* Observation and movement                                                *)
(***************************************************************************)
Directions == {"Up", "Down", "Left", "Right"}
DirectionAll == <<"Up", "Down", "Left", "Right">>

next_position(p, dir) ==
    CASE dir = "Up" /\ p[2] > 0 -> <<p[1], p[2] - 1>>
      [] dir = "Down" /\ p[2] < map_height - 1 -> <<p[1], p[2] + 1>>
      [] dir = "Left" /\ p[1] > 0 -> <<p[1] - 1, p[2]>>
      [] dir = "Right" /\ p[1] < map_width - 1 -> <<p[1] + 1, p[2]>>
      [] OTHER -> p

is_valid_move(c) == c[1] < map_width /\ c[2] < map_height /\ ~is_obstacle(c)

\* The TileInfo observe_and_update writes for c, from the ground truth.
ObservedTile(c, res) ==
    IF is_station(c) THEN TileStation
    ELSE IF is_obstacle(c) THEN TileObstacle
    ELSE IF get_resource(res, c) # NoResource /\ get_resource(res, c).amount > 0
         THEN TileResource(get_resource(res, c).resource_type, get_resource(res, c).amount)
         ELSE TileWalkable

observe_and_update(k, c, res) ==
    IF c[1] >= map_width \/ c[2] >= map_height THEN k
    ELSE update_tile(k, c, ObservedTile(c, res))

\* The tile of the robot and its neighbours in the four directions: each is
\* observed once per tick, and an observation writes only its own key.
observe_surroundings(k, p, res) ==
    [c \in DOMAIN k |->
        IF c = p \/ \E d \in Directions : next_position(p, d) = c /\ c # p
        THEN observe_and_update(k, c, res)[c]
        ELSE k[c]]

\* A direction leads to a tile the robot can step on.
CanStep(p, dir, k) ==
    /\ next_position(p, dir) # p
    /\ is_valid_move(next_position(p, dir))
    /\ get_tile(k, next_position(p, dir)).kind # "Obstacle"

\* The first entry of the sequence of directions seq that satisfies CanStep
\* ("none" entries are skipped), or "none".
FirstStep(seq, p, k) ==
    IF \E n \in 1..Len(seq) : seq[n] # "none" /\ CanStep(p, seq[n], k)
    THEN seq[CHOOSE n \in 1..Len(seq) :
                /\ seq[n] # "none" /\ CanStep(p, seq[n], k)
                /\ \A m \in 1..(n - 1) : ~(seq[m] # "none" /\ CanStep(p, seq[m], k))]
    ELSE "none"

\* The directions move_towards_target may return: the first of horizontal,
\* vertical, Up, Down, Left, Right that can be stepped on; when none can, the
\* random tries fail too and the result is Direction::random().
move_towards_target(p, target, k) ==
    LET try_horizontal == IF target[1] > p[1] THEN "Right"
                          ELSE IF target[1] < p[1] THEN "Left" ELSE "none"
        try_vertical == IF target[2] > p[2] THEN "Down"
                        ELSE IF target[2] < p[2] THEN "Up" ELSE "none"
        first == FirstStep(<<try_horizontal, try_vertical>> \o DirectionAll, p, k)
    IN  IF first # "none" THEN {first} ELSE Directions

\* The directions smart_direction may return ({} for None).
smart_direction(p, k, visited_) ==
    LET moving == {d \in Directions : next_position(p, d) # p}
        tile(d) == get_tile(k, next_position(p, d))
        is_res(d) == tile(d).kind = "Resource" /\ tile(d).amount > 0
        is_walk(d) == \/ tile(d).kind = "Resource" /\ tile(d).amount = 0
                      \/ tile(d).kind \in {"Walkable", "Station"}
        resource_candidates ==
            {d \in moving : is_res(d) /\ next_position(p, d) \notin visited_}
        walkable_candidates ==
            {d \in moving : is_walk(d) /\ next_position(p, d) \notin visited_}
        fallback_candidates ==
            {d \in moving : (is_res(d) \/ is_walk(d)) /\ next_position(p, d) \in visited_}
    IN  IF resource_candidates # {} THEN resource_candidates
        ELSE IF walkable_candidates # {} THEN walkable_candidates
        ELSE fallback_candidates

\* smart_direction(..).unwrap_or_else(Direction::random)
ExploreDirections(p, k, visited_) ==
    IF smart_direction(p, k, visited_) # {} THEN smart_direction(p, k, visited_)
    ELSE Directions

\* robot/movement.rs smart_direction: the first direction, in the order of
\* Direction::all(), to an unvisited Resource is returned at once; otherwise
\* a random unvisited Walkable or Station neighbour, otherwise a random
\* visited one ({} for None).
legacy_smart_direction(p, k, visited_) ==
    LET tile(d) == get_tile(k, next_position(p, d))
        fresh_resource(d) ==
            /\ next_position(p, d) # p
            /\ tile(d).kind = "Resource"
            /\ next_position(p, d) \notin visited_
        candidates ==
            {d \in Directions : /\ next_position(p, d) # p
                                /\ tile(d).kind \in {"Walkable", "Station"}
                                /\ next_position(p, d) \notin visited_}
        fallback ==
            {d \in Directions : /\ next_position(p, d) # p
                                /\ tile(d).kind \in {"Resource", "Walkable", "Station"}
                                /\ next_position(p, d) \in visited_}
    IN  IF \E n \in 1..4 : fresh_resource(DirectionAll[n])
        THEN {DirectionAll[CHOOSE n \in 1..4 :
                    /\ fresh_resource(DirectionAll[n])
                    /\ \A m \in 1..(n - 1) : ~fresh_resource(DirectionAll[m])]}
        ELSE IF candidates # {} THEN candidates
        ELSE fallback

LegacyExploreDirections(p, k, visited_) ==
    IF legacy_smart_direction(p, k, visited_) # {}
    THEN legacy_smart_direction(p, k, visited_)
    ELSE Directions

\* A step onto tile n is taken: the map allows it and n is not a known obstacle.
StepAllowed(n, k) == is_valid_move(n) /\ get_tile(k, n).kind # "Obstacle"

(***************************************************************************)
(* Robot configuration and RobotState                                      *)
(***************************************************************************)
RobotIds == {0, 1, 2}

\* Stand-ins for config::EXPLORATION_ROBOT_MAX_ENERGY (800),
\* COLLECTION_ROBOT_MAX_ENERGY (500) and SCIENTIFIC_ROBOT_MAX_ENERGY (500):
\* the energy the robots App::new spawns start with, a step of work or a few
\* above the low-energy threshold of the type.
ExplorationMaxEnergy == 21
CollectionMaxEnergy == 27
ScientificMaxEnergy == 32

\* RobotTypeConfig: EXPLORATION_CONFIG, COLLECTION_CONFIG, SCIENTIFIC_CONFIG.
low_energy_threshold(type) ==
    CASE type = "Exploration" -> 20 [] type = "Collection" -> 25 [] type = "Scientific" -> 30

movement_energy_cost(type) ==
    CASE type = "Exploration" -> 1 [] type = "Collection" -> 2 [] type = "Scientific" -> 1

collection_action_cost == 3
analysis_action_cost == 5
max_capacity == 700

MaxEnergyOf(type) ==
    CASE type = "Exploration" -> ExplorationMaxEnergy
      [] type = "Collection" -> CollectionMaxEnergy
      [] type = "Scientific" -> ScientificMaxEnergy

\* The status a robot of a type works in.
ActiveStatus(type) ==
    CASE type = "Exploration" -> "Exploring"
      [] type = "Collection" -> "Collecting"
      [] type = "Scientific" -> "Analyzing"

NoCargo == [rt \in ResourceTypes |-> 0]

RobotState_new(x, y, initial_status, max_energy_) ==
    [x |-> x, y |-> y, status |-> initial_status, energy |-> max_energy_,
     max_energy |-> max_energy_, collected_resources |-> NoCargo]

Pos(s) == <<s.x, s.y>>

\* use_energy that subtracts without looking at what is left.
use_energy_Unclamped(s, amount) == [s EXCEPT !.energy = s.energy - amount]

\* RobotState::use_energy: the state afterwards, and its result.
can_use_energy(s, amount) == s.energy >= amount

use_energy(s, amount) ==
    [s EXCEPT !.energy = IF s.energy >= amount THEN s.energy - amount ELSE 0]

CargoTotal(s) ==
    s.collected_resources["Energy"] + s.collected_resources["Minerals"]
        + s.collected_resources["SciencePoints"]

\* can_collect_resource without the comparison.
can_collect_resource_Always(s, amount) == TRUE

\* RobotState::collect_resource: all or nothing against max_capacity.
can_collect_resource(s, amount) == CargoTotal(s) + amount <= max_capacity

\* collect_resource that adds the amount whatever the cargo holds.
collect_resource_Unchecked(s, rt, amount) ==
    [s EXCEPT !.collected_resources[rt] = @ + amount]

collect_resource(s, rt, amount) ==
    IF can_collect_resource(s, amount)
    THEN [s EXCEPT !.collected_resources[rt] = @ + amount]
    ELSE s

is_full(s) == CargoTotal(s) >= max_capacity

\* The modules App::spawn_robot_instance chooses from.
ScientificModules ==
    { [name |-> "Chemical Analyzer", science_bonus |-> 15, energy_cost |-> 2],
      [name |-> "Drill", science_bonus |-> 10, energy_cost |-> 3],
      [name |-> "High-Res Camera", science_bonus |-> 20, energy_cost |-> 1],
      [name |-> "Spectrometer", science_bonus |-> 25, energy_cost |-> 2],
      [name |-> "Sample Container", science_bonus |-> 5, energy_cost |-> 1] }

RECURSIVE module_bonus(_)
\* ScientificRobot::analyze_science_point's sum of the science bonuses.
module_bonus(ms) ==
    IF ms = {} THEN 0
    ELSE LET m == CHOOSE m \in ms : TRUE IN m.science_bonus + module_bonus(ms \ {m})

RECURSIVE get_module_passive_energy_cost(_)
get_module_passive_energy_cost(ms) ==
    IF ms = {} THEN 0
    ELSE LET m == CHOOSE m \in ms : TRUE
         IN  m.energy_cost + get_module_passive_energy_cost(ms \ {m})

analyze_science_point(ms, base_value) == base_value + module_bonus(ms)

(***************************************************************************)
(* State                                                                   *)
(***************************************************************************)
VARIABLES
    global_knowledge,    \* DataManager.global_knowledge
    now,                 \* the last reading of Utc::now() in merge_robot_knowledge
    event_bus,           \* the main mpsc channel: events sent and not yet received
    harness_event,       \* the event a driver of the Station handed to process_event
    event_receiver,      \* the receiving end of the main channel is alive
    map_resources,       \* Map.resource_manager
    robot_kind,          \* per robot thread: type, source module, target, modules
    map_guard,           \* per robot thread: the guard of the Map's RwLock it holds
    state,               \* per robot thread: its RobotState
    knowledge,           \* per robot thread: its RobotKnowledge
    visited,             \* per robot thread: the visited set of the current cycle
    pc,                  \* per robot thread: "running", "locking" (before map.write()),
                         \* "waiting" (in recv_timeout), "stopped"
    merge_result,        \* per robot thread: the arm its last recv_timeout took
    merge_channel,       \* per robot: its MergeComplete channel, sent and not yet received
    robot_merge_senders, \* App.robot_merge_senders: robots whose merge sender is alive
    app_robots,          \* App.{exploration,collection,scientific}_robots
    collected_resources, \* App.collected_resources
    scientific_data      \* App.scientific_data

vars ==
    <<global_knowledge, now, event_bus, harness_event, event_receiver, map_resources,
      robot_kind, map_guard, state, knowledge, visited, pc, merge_result, merge_channel,
      robot_merge_senders, app_robots, collected_resources, scientific_data>>

station_vars == <<global_knowledge, now>>
robot_vars == <<robot_kind, map_guard, state, knowledge, visited, pc, merge_result>>
app_vars == <<app_robots, collected_resources, scientific_data>>

NoEvent == [type |-> "None"]

ExplorationData(id, x, y, obstacle) ==
    [type |-> "ExplorationData", id |-> id, x |-> x, y |-> y, is_obstacle |-> obstacle]
CollectionData(id, x, y, rt, amt) ==
    [type |-> "CollectionData", id |-> id, x |-> x, y |-> y,
     resource_type |-> rt, amount |-> amt]
ScienceData(id, x, y, amt) ==
    [type |-> "ScienceData", id |-> id, x |-> x, y |-> y,
     resource_type |-> "SciencePoints", amount |-> amt]
LowEnergy(id, remaining) == [type |-> "LowEnergy", id |-> id, remaining |-> remaining]
ReturnToBase(id) == [type |-> "ReturnToBase", id |-> id]
ArrivedAtStation(id, k) == [type |-> "ArrivedAtStation", id |-> id, knowledge |-> k]
MergeComplete(id, k) == [type |-> "MergeComplete", id |-> id, merged_knowledge |-> k]
Shutdown(id) == [type |-> "Shutdown", id |-> id]

\* The main channel holds at most MaxBus events, a merge channel MaxMergeQueue.
MaxBus == 2
MaxMergeQueue == 1

\* Sender::send on the main channel fails exactly when the receiver is gone.
send_ok == event_receiver

\* The main channel after the events of seq were sent in order.
Send(seq) ==
    IF event_receiver
    THEN /\ Len(event_bus) + Len(seq) <= MaxBus
         /\ event_bus' = event_bus \o seq
    ELSE event_bus' = event_bus

(***************************************************************************)
(* Station::process_event                                                  *)
(***************************************************************************)
\* The global knowledge after process_event(event) read the clock as t.
StationMerged(event, t) ==
    IF event.type = "ArrivedAtStation"
    THEN merge_robot_knowledge(global_knowledge, event.id, event.knowledge, t)
    ELSE global_knowledge

\* A process_event that answers every event with a MergeComplete.
StationReply_Always(event, t) ==
    <<MergeComplete(event.id, get_global_robot_knowledge(StationMerged(event, t)))>>

\* What process_event(event) sends on Station.event_sender.
StationReply(event, t) ==
    IF event.type = "ArrivedAtStation"
    THEN <<MergeComplete(event.id, get_global_robot_knowledge(StationMerged(event, t)))>>
    ELSE <<>>

\* process_event(event) with the main channel holding bus when it is called.
process_event(event, t, bus) ==
    /\ global_knowledge' = StationMerged(event, t)
    /\ now' = IF event.type = "ArrivedAtStation" THEN t ELSE now
    /\ event_bus' = bus \o StationReply(event, t)

(***************************************************************************)
(* The robot threads: one action per arm of the loop of start()            *)
(***************************************************************************)
Type(i) == robot_kind[i].type
IsLegacy(i) == robot_kind[i].module = "robot"

\* What one arm of the loop leaves behind: the robot's state, knowledge and
\* visited set, the events it sent on the main channel, and where the thread
\* is afterwards ("stopped" after a break, which sends Shutdown on the way out).
Outcome(s, k, v, sent, pc_) ==
    [state |-> s, knowledge |-> k, visited |-> v, sent |-> sent, pc |-> pc_]

Apply(i, o) ==
    /\ state' = [state EXCEPT ![i] = o.state]
    /\ knowledge' = [knowledge EXCEPT ![i] = o.knowledge]
    /\ visited' = [visited EXCEPT ![i] = o.visited]
    /\ pc' = [pc EXCEPT ![i] = o.pc]
    /\ Send(o.sent \o (IF o.pc = "stopped" THEN <<Shutdown(i)>> ELSE <<>>))

\* The low-energy check that also spends a step's worth of energy.
LowEnergyOutcome_StillPays(i) ==
    Outcome(use_energy([state[i] EXCEPT !.status = "ReturningToStation"],
                       movement_energy_cost(Type(i))),
            knowledge[i], IF Type(i) = "Collection" THEN visited[i] ELSE {}, <<>>, "running")

\* The low-energy check at the top of the working arm.
LowEnergyOutcome(i) ==
    Outcome([state[i] EXCEPT !.status = "ReturningToStation"], knowledge[i],
            IF Type(i) = "Collection" THEN visited[i] ELSE {}, <<>>, "running")

\* ExplorationRobot, arm Exploring: observe, choose a direction, step, report.
ExploreOutcome(i, dir) ==
    LET s == state[i]
        k1 == observe_surroundings(knowledge[i], Pos(s), map_resources)
        n == next_position(Pos(s), dir)
        moved == StepAllowed(n, k1)
    IN  IF moved
        THEN Outcome(use_energy([s EXCEPT !.x = n[1], !.y = n[2]],
                                movement_energy_cost("Exploration")),
                     k1, visited[i] \cup {n},
                     <<ExplorationData(i, n[1], n[2], is_obstacle(n))>>,
                     IF send_ok THEN "running" ELSE "stopped")
        ELSE Outcome(s, k1, visited[i], <<>>, "running")

Exploring(i) ==
    /\ pc[i] = "running"
    /\ Type(i) = "Exploration"
    /\ state[i].status = "Exploring"
    /\ IF state[i].energy <= low_energy_threshold("Exploration")
       THEN Apply(i, LowEnergyOutcome(i))
       ELSE \E dir \in
                (IF IsLegacy(i)
                 THEN LegacyExploreDirections(Pos(state[i]),
                          observe_surroundings(knowledge[i], Pos(state[i]), map_resources),
                          visited[i])
                 ELSE ExploreDirections(Pos(state[i]),
                          observe_surroundings(knowledge[i], Pos(state[i]), map_resources),
                          visited[i])) :
                Apply(i, ExploreOutcome(i, dir))
    /\ UNCHANGED <<station_vars, harness_event, event_receiver, map_resources, robot_kind, map_guard,
                   merge_result, merge_channel, robot_merge_senders, app_vars>>


\* Squared distance, as the find_nearest_* functions compute it.
dist_sq(a, b) == (a[1] - b[1]) * (a[1] - b[1]) + (a[2] - b[2]) * (a[2] - b[2])

\* The coordinates min_by_key can return over the candidate tiles: those at
\* the least distance (the HashMap iteration order decides between equally
\* near ones).
Nearest(p, candidates) ==
    {c \in candidates : \A d \in candidates : dist_sq(p, c) <= dist_sq(p, d)}

find_nearest_target_resource(i, k) ==
    Nearest(Pos(state[i]),
            {c \in DOMAIN k : /\ k[c].kind = "Resource"
                              /\ k[c].resource_type = robot_kind[i].target_resource_type
                              /\ k[c].amount > 0})

find_nearest_known_science_point(i, k) ==
    Nearest(Pos(state[i]),
            {c \in DOMAIN k : k[c].kind = "Resource" /\ k[c].resource_type = "SciencePoints"})

\* CollectionRobot without a known target: the first direction, in the order
\* of Direction::all(), with the best score (Unknown 2, Walkable 1, else 0)
\* among the allowed steps; Direction::random() when no step is allowed.
CollectorExploreDirections(p, k) ==
    LET score(d) == CASE get_tile(k, next_position(p, d)).kind = "Unknown" -> 2
                      [] get_tile(k, next_position(p, d)).kind = "Walkable" -> 1
                      [] OTHER -> 0
        allowed(n) == StepAllowed(next_position(p, DirectionAll[n]), k)
    IN  IF \E n \in 1..4 : allowed(n)
        THEN {DirectionAll[CHOOSE n \in 1..4 :
                /\ allowed(n)
                /\ \A m \in 1..4 : allowed(m) =>
                      \/ score(DirectionAll[m]) < score(DirectionAll[n])
                      \/ score(DirectionAll[m]) = score(DirectionAll[n]) /\ m >= n]}
        ELSE Directions

\* CollectionRobot, arm Collecting, the read-lock scope: the map holds a
\* deposit of the target type on the robot's tile.
resource_present(i) ==
    LET here == get_resource(map_resources, Pos(state[i]))
    IN  /\ here # NoResource
        /\ here.resource_type = robot_kind[i].target_resource_type
        /\ here.amount > 0

\* CollectAttempt without the second look at the deposit inside the
\* write-lock scope.
CollectAttempt_NoRecheck(i) ==
    LET s == state[i]
        here == get_resource(map_resources, Pos(s))
        s1 == use_energy(s, collection_action_cost)
    IN  IF ~can_use_energy(s, collection_action_cost)
        THEN [state |-> s1, collected |-> FALSE, amount |-> 0]
        ELSE IF ~can_collect_resource(s1, here.amount)
             THEN [state |-> s1, collected |-> FALSE, amount |-> 0]
        ELSE [state |-> collect_resource(s1, robot_kind[i].target_resource_type,
                                         here.amount),
              collected |-> TRUE, amount |-> here.amount]

\* CollectionRobot, arm Collecting, after resource_present: pay the action
\* cost, then the write-lock scope, which looks the deposit up again and
\* credits the cargo. The result holds the robot's state, whether it
\* collected (the removal from the map follows in the same scope), and the
\* amount.
CollectAttempt(i) ==
    LET s == state[i]
        here == get_resource(map_resources, Pos(s))
        s1 == use_energy(s, collection_action_cost)
    IN  IF ~can_use_energy(s, collection_action_cost)
        THEN [state |-> s1, collected |-> FALSE, amount |-> 0]
        ELSE IF ~resource_present(i)
             THEN [state |-> s1, collected |-> FALSE, amount |-> 0]
        ELSE IF ~can_collect_resource(s1, here.amount)
             THEN [state |-> s1, collected |-> FALSE, amount |-> 0]
        ELSE [state |-> collect_resource(s1, here.resource_type, here.amount),
              collected |-> TRUE, amount |-> here.amount]

\* CollectionRobot, arm Collecting, second half (nothing collected): observe
\* and step in direction dir.
CollectorMoveOutcome(i, s, dir) ==
    LET k1 == observe_surroundings(knowledge[i], Pos(s), map_resources)
        n == next_position(Pos(s), dir)
    IN  IF StepAllowed(n, k1)
        THEN IF s.energy >= movement_energy_cost("Collection")
             THEN Outcome(use_energy([s EXCEPT !.x = n[1], !.y = n[2]],
                                     movement_energy_cost("Collection")),
                          k1, visited[i], <<>>, "running")
             ELSE Outcome([s EXCEPT !.status = "ReturningToStation"],
                          k1, visited[i], <<>>, "running")
        ELSE Outcome(s, k1, visited[i], <<>>, "running")

CollectorDirections(i) ==
    LET k1 == observe_surroundings(knowledge[i], Pos(state[i]), map_resources)
    IN  IF find_nearest_target_resource(i, k1) # {}
        THEN UNION {move_towards_target(Pos(state[i]), t, k1) :
                        t \in find_nearest_target_resource(i, k1)}
        ELSE CollectorExploreDirections(Pos(state[i]), k1)

\* CollectedOutcome that leaves the robot's knowledge of the tile as it was.
CollectedOutcome_KeepsTile(i) ==
    Outcome(CollectAttempt(i).state, knowledge[i], visited[i],
            <<CollectionData(i, state[i].x, state[i].y,
                             robot_kind[i].target_resource_type,
                             CollectAttempt(i).amount)>>,
            IF send_ok THEN "running" ELSE "stopped")

\* The robot after a collection: the tile is Walkable in its knowledge and
\* CollectionData is sent; a failed send breaks the loop.
CollectedOutcome(i) ==
    Outcome(CollectAttempt(i).state,
            update_tile(knowledge[i], Pos(state[i]), TileWalkable),
            visited[i],
            <<CollectionData(i, state[i].x, state[i].y,
                             robot_kind[i].target_resource_type,
                             CollectAttempt(i).amount)>>,
            IF send_ok THEN "running" ELSE "stopped")

\* Arm Collecting. The thread holds no lock between the read-lock scope and
\* the write-lock scope, so the arm takes two steps when the read-lock scope
\* found a deposit: the first ends before map.write() (pc "locking"), the
\* second is the write-lock scope and the rest of the arm.
Collecting(i) ==
    /\ pc[i] \in {"running", "locking"}
    /\ Type(i) = "Collection"
    /\ state[i].status = "Collecting"
    /\ IF pc[i] = "locking"
       THEN IF CollectAttempt(i).collected
            THEN /\ map_resources' = remove_resource(map_resources, Pos(state[i]))
                 /\ Apply(i, CollectedOutcome(i))
            ELSE /\ UNCHANGED map_resources
                 /\ \E dir \in CollectorDirections(i) :
                       Apply(i, CollectorMoveOutcome(i, CollectAttempt(i).state, dir))
       ELSE IF state[i].energy <= low_energy_threshold("Collection") \/ is_full(state[i])
       THEN Apply(i, LowEnergyOutcome(i)) /\ UNCHANGED map_resources
       ELSE IF resource_present(i)
       THEN /\ UNCHANGED map_resources
            /\ Apply(i, Outcome(state[i], knowledge[i], visited[i], <<>>, "locking"))
       ELSE /\ UNCHANGED map_resources
            /\ \E dir \in CollectorDirections(i) :
                  Apply(i, CollectorMoveOutcome(i, state[i], dir))
    /\ UNCHANGED <<station_vars, harness_event, event_receiver, robot_kind, map_guard,
                   merge_result, merge_channel, robot_merge_senders, app_vars>>

\* ScientificRobot, arm Analyzing, first half: analyse the science point the
\* knowledge shows on the robot's tile. The result holds the robot's state,
\* whether it analysed, and the science value.
AnalyzeAttempt(i, k1) ==
    LET s == state[i]
        tile == get_tile(k1, Pos(s))
        ms == robot_kind[i].modules
        analysis_total_cost == analysis_action_cost + get_module_passive_energy_cost(ms)
        science_value == analyze_science_point(ms, tile.amount)
        s1 == use_energy(s, analysis_total_cost)
        s2 == collect_resource(s1, "SciencePoints", science_value)
    IN  IF ~(tile.kind = "Resource" /\ tile.resource_type = "SciencePoints"
                /\ tile.amount > 0)
        THEN [state |-> s, analyzed |-> FALSE, amount |-> 0]
        ELSE IF ~can_use_energy(s, analysis_total_cost)
             THEN [state |-> s1, analyzed |-> FALSE, amount |-> 0]
        ELSE [state |-> IF ~IsLegacy(i) /\ ~can_collect_resource(s1, science_value)
                            /\ is_full(s2)
                        THEN [s2 EXCEPT !.status = "ReturningToStation"]
                        ELSE s2,
              analyzed |-> TRUE, amount |-> science_value]

\* The directions the second half of the arm chooses from: towards the
\* nearest known science point, or smart_direction.
ScientistDirections(i, k1) ==
    IF find_nearest_known_science_point(i, k1) # {}
    THEN UNION {move_towards_target(Pos(state[i]), t, k1) :
                    t \in find_nearest_known_science_point(i, k1)}
    ELSE IF IsLegacy(i) THEN LegacyExploreDirections(Pos(state[i]), k1, visited[i])
    ELSE ExploreDirections(Pos(state[i]), k1, visited[i])

\* ScientificRobot, arm Analyzing, second half (nothing analysed): pay for
\* the move, then step in direction dir. ScientificRobot of robot/behavior/
\* reports the new position with a ScienceData of amount 0.
ScientistMoveOutcome(i, s, k1, dir) ==
    LET move_total_cost == movement_energy_cost("Scientific")
                              + get_module_passive_energy_cost(robot_kind[i].modules)
        s1 == use_energy(s, move_total_cost)
        n == next_position(Pos(s), dir)
    IN  IF ~can_use_energy(s, move_total_cost)
        THEN Outcome([s1 EXCEPT !.status = "ReturningToStation"], k1, {}, <<>>, "running")
        ELSE IF StepAllowed(n, k1)
        THEN Outcome([s1 EXCEPT !.x = n[1], !.y = n[2]], k1, visited[i] \cup {n},
                     IF IsLegacy(i) THEN <<>> ELSE <<ScienceData(i, n[1], n[2], 0)>>,
                     "running")
        ELSE Outcome(s1, k1, visited[i], <<>>, "running")

Analyzing(i) ==
    /\ pc[i] = "running"
    /\ Type(i) = "Scientific"
    /\ state[i].status = "Analyzing"
    /\ LET k1 == observe_surroundings(knowledge[i], Pos(state[i]), map_resources)
           a == AnalyzeAttempt(i, k1)
       IN  IF state[i].energy <= low_energy_threshold("Scientific")
           THEN Apply(i, LowEnergyOutcome(i))
           ELSE IF a.analyzed
           THEN Apply(i, Outcome(a.state, k1, visited[i],
                                 <<ScienceData(i, state[i].x, state[i].y, a.amount)>>,
                                 IF send_ok \/ ~IsLegacy(i) THEN "running" ELSE "stopped"))
           ELSE \E dir \in ScientistDirections(i, k1) :
                    Apply(i, ScientistMoveOutcome(i, a.state, k1, dir))
    /\ UNCHANGED <<station_vars, harness_event, event_receiver, map_resources, robot_kind, map_guard,
                   merge_result, merge_channel, robot_merge_senders, app_vars>>

\* What a step of the way back costs, taken when the step is made:
\* ExplorationRobot and CollectionRobot of robot/ pay the movement cost, the
\* robots of robot/behavior/ pay nothing (ScientificRobot of robot/ pays
\* before it looks for a direction, see Returning).
ReturnStepCost(i) ==
    IF IsLegacy(i) /\ Type(i) \in {"Exploration", "Collection"}
    THEN movement_energy_cost(Type(i))
    ELSE 0

\* The positions the arm ReturningToStation can leave the robot on, with
\* whether it moved: the direction of move_towards_target if that step is
\* allowed, otherwise up to four random directions, otherwise no move.
ReturnMoves(p, k) ==
    UNION { IF StepAllowed(next_position(p, d), k)
            THEN {<<next_position(p, d), TRUE>>}
            ELSE {<<next_position(p, rd), TRUE>> :
                      rd \in {r \in Directions : StepAllowed(next_position(p, r), k)}}
                 \cup {<<p, FALSE>>}
          : d \in move_towards_target(p, StationCenter, k) }

ReturnOutcome(i, s, mv) ==
    Outcome(IF mv[2]
            THEN use_energy([s EXCEPT !.x = mv[1][1], !.y = mv[1][2]], ReturnStepCost(i))
            ELSE s,
            knowledge[i], visited[i], <<>>, "running")

\* Arm ReturningToStation, away from the station.
Returning(i) ==
    /\ pc[i] = "running"
    /\ state[i].status = "ReturningToStation"
    /\ Pos(state[i]) # StationCenter
    /\ IF IsLegacy(i) /\ Type(i) = "Scientific"
       THEN LET cost == movement_energy_cost("Scientific")
                            + get_module_passive_energy_cost(robot_kind[i].modules)
            IN  IF can_use_energy(state[i], cost)
                THEN \E mv \in ReturnMoves(Pos(state[i]), knowledge[i]) :
                        Apply(i, ReturnOutcome(i, use_energy(state[i], cost), mv))
                ELSE Apply(i, Outcome(use_energy(state[i], cost), knowledge[i],
                                      visited[i], <<>>, "running"))
       ELSE \E mv \in ReturnMoves(Pos(state[i]), knowledge[i]) :
                Apply(i, ReturnOutcome(i, state[i], mv))
    /\ UNCHANGED <<station_vars, harness_event, event_receiver, map_resources, robot_kind, map_guard,
                   merge_result, merge_channel, robot_merge_senders, app_vars>>

\* Arrive without the comparison of the position with the station's.
Arrive_Anywhere(i) ==
    /\ pc[i] = "running"
    /\ state[i].status = "ReturningToStation"
    /\ Apply(i, Outcome([state[i] EXCEPT !.status = "AtStation"], knowledge[i], visited[i],
                        <<ArrivedAtStation(i, knowledge[i])>>,
                        IF send_ok THEN "waiting" ELSE "stopped"))
    /\ merge_result' = [merge_result EXCEPT ![i] = "none"]
    /\ UNCHANGED <<station_vars, harness_event, event_receiver, map_resources, robot_kind, map_guard,
                   merge_channel, robot_merge_senders, app_vars>>

\* Arm ReturningToStation, on the station tile: become AtStation and send
\* ArrivedAtStation with a clone of the knowledge. When the send fails the
\* robots of robot/ break, ExplorationRobot of robot/behavior/ returns to the
\* loop, ScientificRobot of robot/behavior/ ignores it and waits.
Arrive(i) ==
    /\ pc[i] = "running"
    /\ state[i].status = "ReturningToStation"
    /\ Pos(state[i]) = StationCenter
    /\ Apply(i, Outcome([state[i] EXCEPT !.status = "AtStation"], knowledge[i], visited[i],
                        <<ArrivedAtStation(i, knowledge[i])>>,
                        IF send_ok THEN "waiting"
                        ELSE IF IsLegacy(i) THEN "stopped"
                        ELSE IF Type(i) = "Exploration" THEN "running"
                        ELSE "waiting"))
    /\ merge_result' = [merge_result EXCEPT ![i] = "none"]
    /\ UNCHANGED <<station_vars, harness_event, event_receiver, map_resources, robot_kind, map_guard,
                   merge_channel, robot_merge_senders, app_vars>>

\* What recv_timeout(MERGE_TIMEOUT) returns: a queued event if there is one,
\* Timeout while the sender is alive, Disconnected once it is gone.
recv_timeout(i) ==
    IF merge_channel[i] # <<>>
    THEN IF Head(merge_channel[i]).type = "MergeComplete" THEN "MergeComplete"
         ELSE "Unexpected"
    ELSE IF i \in robot_merge_senders THEN "Timeout"
    ELSE "Disconnected"

\* config::RECHARGE_ENERGY, the energy CollectionRobot and ScientificRobot of
\* robot/ are set to on MergeComplete: the robot's full energy.
RECHARGE_ENERGY(i) == state[i].max_energy

\* MergeCompleteOutcome with the cargo left as it is.
MergeCompleteOutcome_KeepsCargo(i, merged_knowledge) ==
    Outcome([state[i] EXCEPT !.energy = state[i].max_energy,
                             !.status = ActiveStatus(Type(i))],
            merged_knowledge,
            IF Type(i) = "Exploration" THEN {} ELSE visited[i],
            <<>>, "running")

\* The robot after the arm Ok(MergeComplete { merged_knowledge, .. }).
MergeCompleteOutcome(i, merged_knowledge) ==
    LET s == state[i]
        energy_ == IF IsLegacy(i) /\ Type(i) # "Exploration"
                   THEN RECHARGE_ENERGY(i) ELSE s.max_energy
        cargo == CASE Type(i) = "Exploration" -> s.collected_resources
                   [] Type(i) = "Collection" -> NoCargo
                   [] Type(i) = "Scientific" ->
                        [s.collected_resources EXCEPT !["SciencePoints"] = 0]
    IN  Outcome([s EXCEPT !.energy = energy_, !.collected_resources = cargo,
                          !.status = ActiveStatus(Type(i))],
                merged_knowledge,
                IF Type(i) = "Exploration" THEN {} ELSE visited[i],
                <<>>, "running")

\* A fallback that recharges like the arm of MergeComplete.
ResumeOutcome_Recharges(i) ==
    Outcome([state[i] EXCEPT !.status = ActiveStatus(Type(i)),
                             !.energy = state[i].max_energy],
            knowledge[i], visited[i], <<>>, "running")

\* The robot after the arms Ok(other) and Err(Timeout).
ResumeOutcome(i) ==
    Outcome([state[i] EXCEPT !.status = ActiveStatus(Type(i))],
            knowledge[i], visited[i], <<>>, "running")

\* The robot after Err(Disconnected): the robots of robot/ break, those of
\* robot/behavior/ only log and return to the loop.
DisconnectedOutcome(i) ==
    Outcome(state[i], knowledge[i], visited[i], <<>>,
            IF IsLegacy(i) THEN "stopped" ELSE "running")

\* The match on recv_timeout(MERGE_TIMEOUT) after ArrivedAtStation was sent.
AwaitMerge(i) ==
    /\ pc[i] = "waiting"
    /\ Apply(i, CASE recv_timeout(i) = "MergeComplete" ->
                        MergeCompleteOutcome(i, Head(merge_channel[i]).merged_knowledge)
                  [] recv_timeout(i) \in {"Unexpected", "Timeout"} -> ResumeOutcome(i)
                  [] recv_timeout(i) = "Disconnected" -> DisconnectedOutcome(i))
    /\ merge_result' = [merge_result EXCEPT ![i] = recv_timeout(i)]
    /\ merge_channel' = [merge_channel EXCEPT
                            ![i] = IF merge_channel[i] # <<>> THEN Tail(@) ELSE @]
    /\ UNCHANGED <<station_vars, harness_event, event_receiver, map_resources, robot_kind, map_guard,
                   robot_merge_senders, app_vars>>

\* Arm AtStation (sleep, nothing changes) and the arm of any other status
\* (fall back to the working status).
Parked(i) ==
    /\ pc[i] = "running"
    /\ state[i].status \notin {ActiveStatus(Type(i)), "ReturningToStation"}
    /\ state' = [state EXCEPT ![i].status =
                    IF @ = "AtStation" THEN @ ELSE ActiveStatus(Type(i))]
    /\ UNCHANGED <<station_vars, event_bus, harness_event, event_receiver, map_resources,
                   robot_kind, map_guard, knowledge, visited, pc, merge_result, merge_channel,
                   robot_merge_senders, app_vars>>

(***************************************************************************)
(* App: the simulation loop                                                *)
(***************************************************************************)
\* App::get_robot_state_mut(id): the entry of a robot the App still tracks.
get_robot_state_mut(robots, id) == robots[id]

\* A bookkeeping match whose Shutdown arm leaves the robot maps alone.
AppRobotsAfter_KeepsEntry(ev) ==
    IF ev.type = "Shutdown" \/ ev.id \notin DOMAIN app_robots
    THEN app_robots
    ELSE [app_robots EXCEPT ![ev.id] =
             CASE ev.type \in {"ExplorationData", "CollectionData", "ScienceData"} ->
                     [@ EXCEPT !.x = ev.x, !.y = ev.y]
               [] ev.type = "LowEnergy" -> [@ EXCEPT !.energy = ev.remaining]
               [] ev.type = "MergeComplete" ->
                     [@ EXCEPT !.energy = @.max_energy, !.collected_resources = NoCargo,
                               !.status = ActiveStatus(Type(ev.id))]
               [] ev.type = "ArrivedAtStation" -> [@ EXCEPT !.status = "AtStation"]
               [] ev.type = "ReturnToBase" -> [@ EXCEPT !.status = "ReturningToStation"]]

\* The robot maps after the bookkeeping match of App::update for event ev.
AppRobotsAfter(ev) ==
    IF ev.type = "Shutdown"
    THEN [j \in (DOMAIN app_robots) \ {ev.id} |-> app_robots[j]]
    ELSE IF ev.id \notin DOMAIN app_robots
    THEN app_robots
    ELSE LET robot == get_robot_state_mut(app_robots, ev.id)
         IN  [app_robots EXCEPT ![ev.id] =
                CASE ev.type \in {"ExplorationData", "CollectionData", "ScienceData"} ->
                        [robot EXCEPT !.x = ev.x, !.y = ev.y]
                  [] ev.type = "LowEnergy" -> [robot EXCEPT !.energy = ev.remaining]
                  [] ev.type = "MergeComplete" ->
                        [robot EXCEPT !.energy = robot.max_energy,
                                      !.collected_resources = NoCargo,
                                      !.status = ActiveStatus(Type(ev.id))]
                  [] ev.type = "ArrivedAtStation" -> [robot EXCEPT !.status = "AtStation"]
                  [] ev.type = "ReturnToBase" ->
                        [robot EXCEPT !.status = "ReturningToStation"]]

\* One iteration of the while loop of App::update: receive an event from the
\* main channel, hand an ArrivedAtStation to the Station, do the bookkeeping.
AppUpdate ==
    /\ event_receiver
    /\ event_bus # <<>>
    /\ LET ev == Head(event_bus)
       IN  /\ IF ev.type = "ArrivedAtStation"
              THEN \E t \in Times : process_event(ev, t, Tail(event_bus))
              ELSE event_bus' = Tail(event_bus) /\ UNCHANGED station_vars
           /\ app_robots' = AppRobotsAfter(ev)
           /\ collected_resources' =
                 IF ev.type = "CollectionData" /\ ev.resource_type # "none" /\ ev.amount > 0
                 THEN [collected_resources EXCEPT ![ev.resource_type] = @ + ev.amount]
                 ELSE collected_resources
           /\ scientific_data' =
                 IF ev.type = "ScienceData" THEN scientific_data + ev.amount
                 ELSE scientific_data
           /\ robot_merge_senders' =
                 IF ev.type = "Shutdown" THEN robot_merge_senders \ {ev.id}
                 ELSE robot_merge_senders
    /\ UNCHANGED <<harness_event, event_receiver, map_resources, robot_vars, merge_channel>>

(***************************************************************************)
(* A driver of the Station alone, as the tests of station.rs drive it:     *)
(* build a knowledge, hand ArrivedAtStation to process_event, receive the  *)
(* reply from the channel.                                                 *)
(***************************************************************************)
HarnessIds == {1, 2}

ReportTiles ==
    {TileUnknown, TileWalkable, TileObstacle, TileStation, TileResource("Energy", 30)}

\* RobotKnowledge::new followed by at most one update_tile.
HarnessKnowledge ==
    {RobotKnowledge_new} \cup
    {update_tile(RobotKnowledge_new, c, v) : c \in Coords, v \in ReportTiles}

HarnessArrive(id, k, t) ==
    /\ harness_event = NoEvent
    /\ harness_event' = ArrivedAtStation(id, k)
    /\ process_event(ArrivedAtStation(id, k), t, event_bus)
    /\ UNCHANGED <<event_receiver, map_resources, robot_vars, merge_channel,
                   robot_merge_senders, app_vars>>

HarnessRecv ==
    /\ harness_event # NoEvent
    /\ event_bus # <<>>
    /\ event_bus' = Tail(event_bus)
    /\ harness_event' = NoEvent
    /\ UNCHANGED <<station_vars, event_receiver, map_resources, robot_vars, merge_channel,
                   robot_merge_senders, app_vars>>

\* No robot thread, map or App exists.
NoRobots == [i \in {} |-> NoEvent]
NoResources == [c \in Coords |-> NoResource]
NoTotals == [rt \in ResourceTypes |-> 0]

InitStation ==
    /\ global_knowledge = DataManager_new
    /\ now = 0
    /\ event_bus = <<>>
    /\ harness_event = NoEvent
    /\ event_receiver = TRUE
    /\ map_resources = NoResources
    /\ robot_kind = NoRobots /\ state = NoRobots /\ knowledge = NoRobots
    /\ visited = NoRobots /\ pc = NoRobots /\ merge_result = NoRobots
    /\ merge_channel = NoRobots
    /\ map_guard = NoRobots
    /\ robot_merge_senders = {}
    /\ app_robots = NoRobots
    /\ collected_resources = NoTotals
    /\ scientific_data = 0

NextStation ==
    \/ \E id \in HarnessIds, k \in HarnessKnowledge, t \in Times : HarnessArrive(id, k, t)
    \/ HarnessRecv

SpecStation == InitStation /\ [][NextStation]_vars

(***************************************************************************)
(* The App as App::new builds it: Station, main channel, one robot of each *)
(* type (ids 0, 1, 2) from robot/, each with its own merge channel.        *)
(***************************************************************************)
Kind(type, module, target, ms) ==
    [type |-> type, module |-> module, target_resource_type |-> target, modules |-> ms]

Module(name) == CHOOSE m \in ScientificModules : m.name = name

\* The module sets and the target resource types the model draws from for the
\* ScientificRobot and the CollectionRobot of App::spawn_robot_instance.
AppModuleChoices == { {Module("High-Res Camera")} }
AppTargetChoices == {"Minerals"}

\* App::find_walkable_spawn_positions with the map of App::new, on which
\* Map::spawn_resources(width * height / 30) placed 12 / 30 = 0 deposits.
WalkableSpawnPositions ==
    {c \in Coords : ~is_obstacle(c) /\ c # StationCenter}

\* The spawn positions the model draws from.
SpawnChoices == {<<1, 1>>, <<3, 1>>, <<2, 0>>}

SpawnedState(type, c) ==
    RobotState_new(c[1], c[2], ActiveStatus(type), MaxEnergyOf(type))

Init ==
    /\ global_knowledge = DataManager_new
    /\ now = 0
    /\ event_bus = <<>>
    /\ harness_event = NoEvent
    /\ event_receiver = TRUE
    /\ map_resources = NoResources
    /\ \E target \in AppTargetChoices, ms \in AppModuleChoices :
          robot_kind = [i \in RobotIds |->
                            CASE i = 0 -> Kind("Exploration", "robot", "none", {})
                              [] i = 1 -> Kind("Collection", "robot", target, {})
                              [] i = 2 -> Kind("Scientific", "robot", "none", ms)]
    /\ \E c \in [RobotIds -> SpawnChoices \cap WalkableSpawnPositions] :
          /\ \A i, j \in RobotIds : i # j => c[i] # c[j]
          /\ state = [i \in RobotIds |-> SpawnedState(robot_kind[i].type, c[i])]
    /\ knowledge = [i \in RobotIds |-> RobotKnowledge_new]
    /\ visited = [i \in RobotIds |-> {}]
    /\ pc = [i \in RobotIds |-> "running"]
    /\ merge_result = [i \in RobotIds |-> "none"]
    /\ merge_channel = [i \in RobotIds |-> <<>>]
    /\ map_guard = [i \in RobotIds |-> "none"]
    /\ robot_merge_senders = RobotIds
    /\ app_robots = state
    /\ collected_resources = NoTotals
    /\ scientific_data = 0

Next ==
    \/ \E i \in DOMAIN state : Exploring(i)
    \/ \E i \in DOMAIN state : Collecting(i)
    \/ \E i \in DOMAIN state : Analyzing(i)
    \/ \E i \in DOMAIN state : Returning(i)
    \/ \E i \in DOMAIN state : Arrive(i)
    \/ \E i \in DOMAIN state : AwaitMerge(i)
    \/ AppUpdate

Spec == Init /\ [][Next]_vars

(***************************************************************************)
(* A driver of one robot thread alone, as the test of                      *)
(* robot/behavior/exploration.rs sets one up: a Map with deposits added, a *)
(* RobotState with a start tile and an energy of the driver's choosing, a  *)
(* main channel whose receiver the driver holds, and a merge channel whose *)
(* sender the driver holds.                                                *)
(***************************************************************************)
HarnessRobot == 1

\* The driver's robots start with this much more than MaxEnergyOf(type).
HarnessExtraEnergy == 5

HarnessKinds ==
    {Kind("Exploration", m, "none", {}) : m \in {"robot", "behavior"}}
    \cup {Kind("Collection", "robot", t, {}) : t \in {"Energy", "Minerals"}}
    \cup {Kind("Scientific", m, "none", ms) :
            m \in {"robot", "behavior"}, ms \in {{}, {Module("High-Res Camera")}}}

HarnessStarts == {<<1, 1>>, <<0, 1>>, <<0, 2>>}

\* RobotState::new takes the energy from its caller (the test of
\* robot/behavior/exploration.rs passes 10): the driver also starts robots
\* that cannot pay for a single step.
HarnessLowEnergy == 1

HarnessEnergies(type) == {MaxEnergyOf(type) + HarnessExtraEnergy, HarnessLowEnergy}

\* What the driver sends on the merge channel: a MergeComplete with a fresh
\* knowledge or with a snapshot of a global view, or another event.
HarnessSnapshots ==
    {RobotKnowledge_new,
     get_global_robot_knowledge(
        update_global_tile(DataManager_new, <<0, 0>>, GlobalObstacle(0)))}

HarnessReplies(i) ==
    {MergeComplete(i, k) : k \in HarnessSnapshots} \cup {ReturnToBase(i)}

InitRobot ==
    /\ global_knowledge = DataManager_new
    /\ now = 0
    /\ event_bus = <<>>
    /\ harness_event = NoEvent
    /\ event_receiver = TRUE
    /\ map_resources = InitialResources
    /\ \E kind \in HarnessKinds, c \in HarnessStarts :
          /\ robot_kind = [i \in {HarnessRobot} |-> kind]
          /\ \E e \in HarnessEnergies(kind.type) :
                state = [i \in {HarnessRobot} |->
                            RobotState_new(c[1], c[2], ActiveStatus(kind.type), e)]
    /\ knowledge = [i \in {HarnessRobot} |-> RobotKnowledge_new]
    /\ visited = [i \in {HarnessRobot} |-> {}]
    /\ pc = [i \in {HarnessRobot} |-> "running"]
    /\ merge_result = [i \in {HarnessRobot} |-> "none"]
    /\ merge_channel = [i \in {HarnessRobot} |-> <<>>]
    /\ map_guard = [i \in {HarnessRobot} |-> "none"]
    /\ robot_merge_senders = {HarnessRobot}
    /\ app_robots = NoRobots
    /\ collected_resources = NoTotals
    /\ scientific_data = 0

\* rx.recv(): the driver takes the next event off the main channel.
HarnessReceive ==
    /\ event_receiver
    /\ event_bus # <<>>
    /\ event_bus' = Tail(event_bus)
    /\ UNCHANGED <<station_vars, harness_event, event_receiver, map_resources, robot_vars,
                   merge_channel, robot_merge_senders, app_vars>>

\* merge_tx.send(ev)
HarnessReply(i, ev) ==
    /\ i \in robot_merge_senders
    /\ Len(merge_channel[i]) < MaxMergeQueue
    /\ merge_channel' = [merge_channel EXCEPT ![i] = Append(@, ev)]
    /\ UNCHANGED <<station_vars, event_bus, harness_event, event_receiver, map_resources,
                   robot_vars, robot_merge_senders, app_vars>>

\* drop(merge_tx)
HarnessDropMergeSender(i) ==
    /\ i \in robot_merge_senders
    /\ robot_merge_senders' = robot_merge_senders \ {i}
    /\ UNCHANGED <<station_vars, event_bus, harness_event, event_receiver, map_resources,
                   robot_vars, merge_channel, app_vars>>

\* drop(rx): the events still queued go with it.
HarnessDropReceiver ==
    /\ event_receiver
    /\ event_receiver' = FALSE
    /\ event_bus' = <<>>
    /\ UNCHANGED <<station_vars, harness_event, map_resources, robot_vars, merge_channel,
                   robot_merge_senders, app_vars>>

NextRobot ==
    \/ \E i \in DOMAIN state : Exploring(i)
    \/ \E i \in DOMAIN state : Collecting(i)
    \/ \E i \in DOMAIN state : Analyzing(i)
    \/ \E i \in DOMAIN state : Returning(i)
    \/ \E i \in DOMAIN state : Arrive(i)
    \/ \E i \in DOMAIN state : AwaitMerge(i)
    \/ \E i \in DOMAIN state : Parked(i)
    \/ HarnessReceive
    \/ \E i \in DOMAIN state : \E ev \in HarnessReplies(i) : HarnessReply(i, ev)
    \/ \E i \in DOMAIN state : HarnessDropMergeSender(i)
    \/ HarnessDropReceiver

SpecRobot == InitRobot /\ [][NextRobot]_vars

\* The robot thread is scheduled: an iteration of the arm ReturningToStation
\* that can run does run (its sleeps are bounded); the main channel is
\* unbounded in the program, so the driver takes from it whenever MaxBus
\* would hold a send up.
LiveSpecRobot ==
    /\ SpecRobot
    /\ \A i \in {HarnessRobot} : WF_vars(Returning(i)) /\ WF_vars(Arrive(i))
    /\ WF_vars(HarnessReceive)

(***************************************************************************)
(* Two CollectionRobot threads on one Map, with the same target type, the  *)
(* driver only draining the main channel.                                  *)
(***************************************************************************)
GridRobots == {1, 2}

InitGrid ==
    /\ global_knowledge = DataManager_new
    /\ now = 0
    /\ event_bus = <<>>
    /\ harness_event = NoEvent
    /\ event_receiver = TRUE
    /\ map_resources = InitialResources
    /\ robot_kind = [i \in GridRobots |-> Kind("Collection", "robot", "Energy", {})]
    /\ \E c \in [GridRobots -> HarnessStarts] :
          state = [i \in GridRobots |->
                      RobotState_new(c[i][1], c[i][2], "Collecting",
                                     MaxEnergyOf("Collection") + HarnessExtraEnergy)]
    /\ knowledge = [i \in GridRobots |-> RobotKnowledge_new]
    /\ visited = [i \in GridRobots |-> {}]
    /\ pc = [i \in GridRobots |-> "running"]
    /\ merge_result = [i \in GridRobots |-> "none"]
    /\ merge_channel = [i \in GridRobots |-> <<>>]
    /\ map_guard = [i \in GridRobots |-> "none"]
    /\ robot_merge_senders = GridRobots
    /\ app_robots = NoRobots
    /\ collected_resources = NoTotals
    /\ scientific_data = 0

NextGrid ==
    \/ \E i \in DOMAIN state : Collecting(i)
    \/ \E i \in DOMAIN state : Returning(i)
    \/ \E i \in DOMAIN state : Arrive(i)
    \/ \E i \in DOMAIN state : AwaitMerge(i)
    \/ HarnessReceive

SpecGrid == InitGrid /\ [][NextGrid]_vars

(***************************************************************************)
(* A driver of App::update alone: the App of App::new, whose robot threads *)
(* are not scheduled, and a holder of a clone of the main sender that      *)
(* sends events of every variant App::update matches on.                   *)
(***************************************************************************)
\* The robots the driver sends events for.
AppEventIds == {0, 1}

\* Every variant App::update has an arm for; the position report is robot
\* 0's and the return notice robot 1's.
AppEvents ==
    {ExplorationData(0, station_x, station_y, FALSE), ReturnToBase(1)} \cup
    UNION { { Shutdown(id), LowEnergy(id, 0),
              ArrivedAtStation(id, RobotKnowledge_new),
              MergeComplete(id, RobotKnowledge_new) } : id \in AppEventIds }

\* sender.send(ev) on a clone of the main sender.
HarnessSendEvent(ev) ==
    /\ event_receiver
    /\ Len(event_bus) < MaxBus
    /\ event_bus' = Append(event_bus, ev)
    /\ UNCHANGED <<station_vars, harness_event, event_receiver, map_resources, robot_vars,
                   merge_channel, robot_merge_senders, app_vars>>

NextApp ==
    \/ \E ev \in AppEvents : HarnessSendEvent(ev)
    \/ AppUpdate

SpecApp == Init /\ [][NextApp]_vars

(***************************************************************************)
(* A driver of Station::process_event that hands it events of every        *)
(* variant, as test_station_handles_unknown_event_gracefully does, and     *)
(* receives from the channel when it likes; harness_event is the last      *)
(* event it handed over.                                                   *)
(***************************************************************************)
ProcessKnowledge ==
    {RobotKnowledge_new,
     update_tile(RobotKnowledge_new, <<0, 0>>, TileObstacle),
     update_tile(RobotKnowledge_new, <<0, 1>>, TileResource("Energy", 30))}

ProcessEvents ==
    UNION { {ArrivedAtStation(id, k) : k \in ProcessKnowledge}
            \cup { Shutdown(id), ReturnToBase(id), LowEnergy(id, 0),
                   ExplorationData(id, 0, 0, TRUE),
                   CollectionData(id, 0, 1, "Energy", 30),
                   ScienceData(id, 0, 2, 0),
                   MergeComplete(id, RobotKnowledge_new) } : id \in HarnessIds }

HarnessProcess(ev, t) ==
    /\ Len(event_bus) < MaxBus
    /\ harness_event' = ev
    /\ process_event(ev, t, event_bus)
    /\ UNCHANGED <<event_receiver, map_resources, robot_vars, merge_channel,
                   robot_merge_senders, app_vars>>

NextProcess ==
    \/ \E ev \in ProcessEvents, t \in Times : HarnessProcess(ev, t)
    \/ HarnessReceive

SpecProcess == InitStation /\ [][NextProcess]_vars

(***************************************************************************)
(* A driver of RobotKnowledge, as the tests of core/knowledge.rs and of     *)
(* station.rs drive it: RobotKnowledge::new for a grid of some size, calls  *)
(* of update_tile inside and outside that grid, and the knowledge handed to *)
(* the Station of the map_width x map_height grid in an ArrivedAtStation.   *)
(* harness_event is the driver's last call.                                 *)
(***************************************************************************)
\* The grids a knowledge is created for: smaller than the Station's, with an
\* even and an odd side, the Station's own, and one column wider.
KnowledgeSizes ==
    {<<2, 2>>, <<3, 2>>, <<map_width, map_height>>, <<map_width + 1, map_height>>}

\* The coordinates update_tile is called with: inside every grid, inside the
\* larger grids only, inside the widest only, and outside all of them.
ProbeCoords == {<<0, 0>>, <<0, 2>>, <<map_width, 0>>, <<map_width + 1, map_height>>}

ProbeTiles == {TileWalkable, TileObstacle}

UpdateTileCall(c, info) == [type |-> "update_tile", c |-> c, info |-> info]

InitKnowledge ==
    /\ global_knowledge = DataManager_new
    /\ now = 0
    /\ event_bus = <<>>
    /\ harness_event = NoEvent
    /\ event_receiver = TRUE
    /\ map_resources = NoResources
    /\ robot_kind = NoRobots /\ state = NoRobots
    /\ \E wh \in KnowledgeSizes :
          knowledge = [i \in {HarnessRobot} |-> RobotKnowledge_of(wh[1], wh[2])]
    /\ visited = NoRobots /\ pc = NoRobots /\ merge_result = NoRobots
    /\ merge_channel = NoRobots
    /\ map_guard = NoRobots
    /\ robot_merge_senders = {}
    /\ app_robots = NoRobots
    /\ collected_resources = NoTotals
    /\ scientific_data = 0

\* knowledge.update_tile(x, y, info)
HarnessUpdateTile(c, info) ==
    /\ harness_event' = UpdateTileCall(c, info)
    /\ knowledge' = [knowledge EXCEPT ![HarnessRobot] = update_tile_of(@, c, info)]
    /\ UNCHANGED <<station_vars, event_bus, event_receiver, map_resources, robot_kind, map_guard, state,
                   visited, pc, merge_result, merge_channel, robot_merge_senders, app_vars>>

\* station.process_event(&ArrivedAtStation { id, knowledge }), once the reply
\* to the previous one has been received.
HarnessDock(t) ==
    /\ event_bus = <<>>
    /\ harness_event' = ArrivedAtStation(HarnessRobot, knowledge[HarnessRobot].map)
    /\ process_event(ArrivedAtStation(HarnessRobot, knowledge[HarnessRobot].map), t, event_bus)
    /\ UNCHANGED <<event_receiver, map_resources, robot_vars, merge_channel,
                   robot_merge_senders, app_vars>>

NextKnowledge ==
    \/ \E c \in ProbeCoords, info \in ProbeTiles : HarnessUpdateTile(c, info)
    \/ \E t \in Times : HarnessDock(t)
    \/ HarnessReceive

SpecKnowledge == InitKnowledge /\ [][NextKnowledge]_vars

(***************************************************************************)
(* A driver of the Map alone: Map::new, then spawn_resources as App::new    *)
(* calls it, then add_resource and remove_resource. harness_event is the    *)
(* driver's last call.                                                      *)
(***************************************************************************)
\* The count spawn_resources is called with.
SpawnCount == 2

\* spawn_resources: the cells whose data is false.
walkable_positions == {c \in Coords : ~is_obstacle(c)}

\* The amounts spawn_resources draws: 1..=5 for SciencePoints, 10..100
\* (exclusive) for the others; the model draws the ends of the ranges.
SpawnAmounts(rt) == IF rt = "SciencePoints" THEN {1, 5} ELSE {10, 99}

SpawnDeposits == UNION { {Deposit(rt, a) : a \in SpawnAmounts(rt)} : rt \in ResourceTypes }

\* ResourceManager::add_resource: insert, replacing what was there.
add_resource(res, c, rt, amt) == [res EXCEPT ![c] = Deposit(rt, amt)]

\* spawn_resources that leaves the station area out of walkable_positions.
SpawnPlacements_OutsideStation(count) ==
    UNION { [P -> SpawnDeposits] :
              P \in {Q \in SUBSET (walkable_positions \ station_area) :
                        Cardinality(Q) = count} }

\* What choose_multiple and the draws of type and amount can come to: count
\* distinct walkable positions, each with a deposit.
SpawnPlacements(count) ==
    UNION { [P -> SpawnDeposits] :
              P \in {Q \in SUBSET walkable_positions : Cardinality(Q) = count} }

\* The store after spawn_resources placed the deposits of placement.
spawn_resources(res, placement) ==
    [c \in DOMAIN res |-> IF c \in DOMAIN placement THEN placement[c] ELSE res[c]]

MapCall(name, c) == [type |-> name, c |-> c]

InitMap ==
    /\ global_knowledge = DataManager_new
    /\ now = 0
    /\ event_bus = <<>>
    /\ harness_event = NoEvent
    /\ event_receiver = TRUE
    /\ map_resources = NoResources
    /\ robot_kind = NoRobots /\ state = NoRobots /\ knowledge = NoRobots
    /\ visited = NoRobots /\ pc = NoRobots /\ merge_result = NoRobots
    /\ merge_channel = NoRobots
    /\ map_guard = NoRobots
    /\ robot_merge_senders = {}
    /\ app_robots = NoRobots
    /\ collected_resources = NoTotals
    /\ scientific_data = 0

\* map.spawn_resources(count, seed), right after Map::new.
HarnessSpawn ==
    /\ harness_event = NoEvent
    /\ \E placement \in SpawnPlacements(SpawnCount) :
          map_resources' = spawn_resources(map_resources, placement)
    /\ harness_event' = MapCall("spawn_resources", StationCenter)
    /\ UNCHANGED <<station_vars, event_bus, event_receiver, robot_vars, merge_channel,
                   robot_merge_senders, app_vars>>

\* map.add_resource(x, y, Minerals, 100), by a caller that keeps out of the
\* station area.
HarnessAddResource(c) ==
    /\ harness_event # NoEvent
    /\ c \notin station_area
    /\ map_resources' = add_resource(map_resources, c, "Minerals", 100)
    /\ harness_event' = MapCall("add_resource", c)
    /\ UNCHANGED <<station_vars, event_bus, event_receiver, robot_vars, merge_channel,
                   robot_merge_senders, app_vars>>

\* map.remove_resource(x, y)
HarnessRemoveResource(c) ==
    /\ harness_event # NoEvent
    /\ map_resources' = remove_resource(map_resources, c)
    /\ harness_event' = MapCall("remove_resource", c)
    /\ UNCHANGED <<station_vars, event_bus, event_receiver, robot_vars, merge_channel,
                   robot_merge_senders, app_vars>>

NextMap ==
    \/ HarnessSpawn
    \/ \E c \in HarnessStarts : HarnessAddResource(c)
    \/ \E c \in Coords : HarnessRemoveResource(c)

SpecMap == InitMap /\ [][NextMap]_vars

(***************************************************************************)
(* A driver of common::move_towards_target: a robot on some free tile of   *)
(* the Map, a knowledge that grows by observe_and_update, and calls with    *)
(* targets all over the grid, each followed by the step its callers take    *)
(* (next_position, then the is_valid_move and known-obstacle test).         *)
(* harness_event is the driver's last call with the direction returned.     *)
(***************************************************************************)
MoveCall(from, target, dir) ==
    [type |-> "move_towards_target", from |-> from, target |-> target, dir |-> dir]

InitMove ==
    /\ global_knowledge = DataManager_new
    /\ now = 0
    /\ event_bus = <<>>
    /\ harness_event = NoEvent
    /\ event_receiver = TRUE
    /\ map_resources = InitialResources
    /\ robot_kind = [i \in {HarnessRobot} |-> Kind("Exploration", "behavior", "none", {})]
    /\ \E c \in Coords \ Obstacles :
          state = [i \in {HarnessRobot} |->
                      RobotState_new(c[1], c[2], "ReturningToStation",
                                     MaxEnergyOf("Exploration"))]
    /\ knowledge = [i \in {HarnessRobot} |-> RobotKnowledge_new]
    /\ visited = [i \in {HarnessRobot} |-> {}]
    /\ pc = [i \in {HarnessRobot} |-> "running"]
    /\ merge_result = [i \in {HarnessRobot} |-> "none"]
    /\ merge_channel = [i \in {HarnessRobot} |-> <<>>]
    /\ map_guard = [i \in {HarnessRobot} |-> "none"]
    /\ robot_merge_senders = {HarnessRobot}
    /\ app_robots = NoRobots
    /\ collected_resources = NoTotals
    /\ scientific_data = 0

\* knowledge.observe_and_update on the robot's tile and its four neighbours.
HarnessObserve ==
    /\ knowledge' = [knowledge EXCEPT ![HarnessRobot] =
                        observe_surroundings(@, Pos(state[HarnessRobot]), map_resources)]
    /\ UNCHANGED <<station_vars, event_bus, harness_event, event_receiver, map_resources,
                   robot_kind, map_guard, state, visited, pc, merge_result, merge_channel,
                   robot_merge_senders, app_vars>>

\* move_towards_target(x, y, target_x, target_y, &knowledge, map), then the
\* caller's step in the direction returned.
HarnessMoveTowards(target) ==
    LET p == Pos(state[HarnessRobot])
        k == knowledge[HarnessRobot]
    IN  \E dir \in move_towards_target(p, target, k) :
           /\ harness_event' = MoveCall(p, target, dir)
           /\ state' = [state EXCEPT ![HarnessRobot] =
                           IF StepAllowed(next_position(p, dir), k)
                           THEN [@ EXCEPT !.x = next_position(p, dir)[1],
                                          !.y = next_position(p, dir)[2]]
                           ELSE @]
           /\ UNCHANGED <<station_vars, event_bus, event_receiver, map_resources,
                          robot_kind, map_guard, knowledge, visited, pc, merge_result, merge_channel,
                          robot_merge_senders, app_vars>>

NextMove ==
    \/ HarnessObserve
    \/ \E target \in Coords : HarnessMoveTowards(target)

SpecMove == InitMove /\ [][NextMove]_vars

(***************************************************************************)
(* The robot threads at the grain of their operations on the Map's RwLock: *)
(* each arm of the loop is cut where the thread calls map.read() or        *)
(* map.write(), leaves the scope of a guard, sleeps or calls recv_timeout. *)
(* pc is "read_wait" or "probe_wait" in map.read(), "reading" or "probing" *)
(* with the read guard, "locking" in map.write(), "writing" with the write *)
(* guard, "sleeping" in thread::sleep. Positions, statuses and the         *)
(* deposits of the Map are kept; what an arm decides on energy, cargo or   *)
(* knowledge is left open, both branches are taken. The receiver of the    *)
(* main channel stays alive, so no send fails.                             *)
(***************************************************************************)
LockRobots == {1, 2}

\* A CollectionRobot and a second robot of any type and module.
LockKinds ==
    {k \in [LockRobots -> {h \in HarnessKinds : h.modules = {}}] :
        /\ k[1].type = "Collection"
        /\ \A i \in LockRobots : k[i].target_resource_type \in {"none", "Energy"}}

\* The tiles the working robots stay on: the tile they start on, which
\* holds a deposit, and the station centre next to it.
LockTiles == {<<1, 1>>, StationCenter}

InitLock ==
    /\ global_knowledge = DataManager_new
    /\ now = 0
    /\ event_bus = <<>>
    /\ harness_event = NoEvent
    /\ event_receiver = TRUE
    /\ map_resources = InitialResources
    /\ robot_kind \in LockKinds
    /\ state = [i \in LockRobots |->
                   RobotState_new(1, 1, ActiveStatus(robot_kind[i].type),
                                  MaxEnergyOf(robot_kind[i].type))]
    /\ knowledge = [i \in LockRobots |-> RobotKnowledge_new]
    /\ visited = [i \in LockRobots |-> {}]
    /\ pc = [i \in LockRobots |-> "running"]
    /\ merge_result = [i \in LockRobots |-> "none"]
    /\ merge_channel = [i \in LockRobots |-> <<>>]
    /\ map_guard = [i \in LockRobots |-> "none"]
    /\ robot_merge_senders = LockRobots
    /\ app_robots = NoRobots
    /\ collected_resources = NoTotals
    /\ scientific_data = 0

\* Robot i goes on at pc_ with status status_ on tile c, holding guard.
LockStep(i, status_, c, pc_, guard) ==
    /\ state' = [state EXCEPT ![i] = [@ EXCEPT !.status = status_, !.x = c[1], !.y = c[2]]]
    /\ pc' = [pc EXCEPT ![i] = pc_]
    /\ map_guard' = [map_guard EXCEPT ![i] = guard]
    /\ UNCHANGED <<station_vars, event_bus, harness_event, event_receiver, robot_kind,
                   knowledge, visited, merge_result, merge_channel, robot_merge_senders,
                   app_vars>>

\* The top of the working arm and of the arm ReturningToStation away from
\* the station: return without a lock (low energy, full), sleep without a
\* lock (ScientificRobot of robot/ that cannot pay for a step back), or call
\* map.read().
LoopTop(i) ==
    /\ pc[i] = "running"
    /\ \/ /\ state[i].status = ActiveStatus(Type(i))
          /\ \/ LockStep(i, "ReturningToStation", Pos(state[i]), "running", map_guard[i])
             \/ LockStep(i, state[i].status, Pos(state[i]),
                         IF Type(i) = "Collection" THEN "probe_wait" ELSE "read_wait",
                         map_guard[i])
       \/ /\ state[i].status = "ReturningToStation"
          /\ Pos(state[i]) # StationCenter
          /\ \/ LockStep(i, state[i].status, Pos(state[i]), "read_wait", map_guard[i])
             \/ /\ IsLegacy(i) /\ Type(i) = "Scientific"
                /\ LockStep(i, state[i].status, Pos(state[i]), "sleeping", map_guard[i])
    /\ UNCHANGED map_resources

\* map.read() returns: no thread holds the write guard.
GrantRead(i) ==
    /\ pc[i] \in {"read_wait", "probe_wait"}
    /\ \A j \in DOMAIN map_guard : map_guard[j] # "write"
    /\ LockStep(i, state[i].status, Pos(state[i]),
                IF pc[i] = "probe_wait" THEN "probing" ELSE "reading", "read")
    /\ UNCHANGED map_resources

\* map.write() returns: no thread holds a guard.
GrantWrite(i) ==
    /\ pc[i] = "locking"
    /\ \A j \in DOMAIN map_guard : map_guard[j] = "none"
    /\ LockStep(i, state[i].status, Pos(state[i]), "writing", "write")
    /\ UNCHANGED map_resources

\* The guard a thread holds when it leaves the block of resource_present
\* for pc_: the guard is a temporary of the block.
ProbeEnd_Upgrades(held, pc_) == IF pc_ = "locking" THEN held ELSE "none"

ProbeEnd(held, pc_) == "none"

\* CollectionRobot, the read-lock scope of resource_present: with a deposit
\* of the target type on the tile the thread goes on to map.write() when
\* use_energy succeeds, in every other case to the second map.read().
Probe(i) ==
    /\ pc[i] = "probing"
    /\ \E pc_ \in (IF resource_present(i) THEN {"locking", "read_wait"} ELSE {"read_wait"}) :
          LockStep(i, state[i].status, Pos(state[i]), pc_, ProbeEnd(map_guard[i], pc_))
    /\ UNCHANGED map_resources

\* CollectionRobot, the write-lock scope: get_resource again, then
\* collect_resource and remove_resource; the guard ends with the block. A
\* collection is followed by the send of CollectionData and the sleep, a
\* failed one by the second map.read().
WriteSection(i) ==
    /\ pc[i] = "writing"
    /\ \/ /\ resource_present(i)
          /\ map_resources' = remove_resource(map_resources, Pos(state[i]))
          /\ LockStep(i, state[i].status, Pos(state[i]), "sleeping", "none")
       \/ /\ UNCHANGED map_resources
          /\ LockStep(i, state[i].status, Pos(state[i]), "read_wait", "none")

\* The guard a thread holds when it leaves a section under map_read_guard
\* for pc_: drop(map_read_guard) precedes every sleep, continue and break.
SectionEnd_SleepsLocked(held, pc_) == IF pc_ = "sleeping" THEN held ELSE "none"

SectionEnd(held, pc_) == "none"

\* Where the section under the read guard can leave robot i: working, on
\* its tile or a neighbour it may step on, then asleep, back at the top of
\* the loop (ScientificRobot: continue after a failed move or payment, the
\* latter as ReturningToStation; CollectionRobot returns when it cannot pay
\* but sleeps); on the way back, on a tile of ReturnMoves and asleep.
SectionExits(i) ==
    LET p == Pos(state[i])
        k == knowledge[i]
        steps == {p} \cup
                 {c \in LockTiles :
                     \E d \in Directions : c = next_position(p, d) /\ StepAllowed(c, k)}
    IN  IF state[i].status = "ReturningToStation"
        THEN {<<"ReturningToStation", mv[1], "sleeping">> : mv \in ReturnMoves(p, k)}
        ELSE {<<state[i].status, c, "sleeping">> : c \in steps}
             \cup (IF Type(i) = "Collection"
                   THEN {<<"ReturningToStation", p, "sleeping">>} ELSE {})
             \cup (IF Type(i) = "Scientific"
                   THEN {<<state[i].status, p, "running">>,
                         <<"ReturningToStation", p, "running">>} ELSE {})

\* The section under map_read_guard: observe, choose a direction, step.
ReadSection(i) ==
    /\ pc[i] = "reading"
    /\ \E x \in SectionExits(i) :
          LockStep(i, x[1], x[2], x[3], SectionEnd(map_guard[i], x[3]))
    /\ UNCHANGED map_resources

\* thread::sleep returns.
Wake(i) ==
    /\ pc[i] = "sleeping"
    /\ LockStep(i, state[i].status, Pos(state[i]), "running", map_guard[i])
    /\ UNCHANGED map_resources

NextLock ==
    \/ \E i \in DOMAIN state : LoopTop(i)
    \/ \E i \in DOMAIN state : GrantRead(i)
    \/ \E i \in DOMAIN state : Probe(i)
    \/ \E i \in DOMAIN state : GrantWrite(i)
    \/ \E i \in DOMAIN state : WriteSection(i)
    \/ \E i \in DOMAIN state : ReadSection(i)
    \/ \E i \in DOMAIN state : Wake(i)
    \/ \E i \in DOMAIN state : Arrive(i)
    \/ \E i \in DOMAIN state : AwaitMerge(i)
    \/ HarnessReceive

SpecLock == InitLock /\ [][NextLock]_vars

\* The threads run (every step a thread can take it takes in the end), the
\* driver keeps receiving, and the lock starves no caller: a call of
\* map.read() or map.write() that could return again and again does return.
LiveSpecLock ==
    /\ SpecLock
    /\ \A i \in LockRobots :
          /\ WF_vars(LoopTop(i)) /\ WF_vars(Probe(i)) /\ WF_vars(WriteSection(i))
          /\ WF_vars(ReadSection(i)) /\ WF_vars(Wake(i))
          /\ WF_vars(Arrive(i)) /\ WF_vars(AwaitMerge(i))
          /\ SF_vars(GrantRead(i)) /\ SF_vars(GrantWrite(i))
    /\ WF_vars(HarnessReceive)

(***************************************************************************)
(* Station merge: claims C1 - C4 (checked under SpecStation)               *)
(***************************************************************************)
\* A step in which the Station processed an ArrivedAtStation.
MergeStep == harness_event = NoEvent /\ harness_event' # NoEvent

\* C1: when the global entry of a coordinate is concrete (Walkable, Obstacle or
\* Resource) and a report with a concrete value for it is merged with a
\* strictly newer timestamp, the snapshot of the MergeComplete sent for that
\* merge shows the reported value (Scenario D: Obstacle, then Walkable).
C1_NewerConcreteReportWins ==
    [][\A c \in Coords :
          ( /\ MergeStep
            /\ global_knowledge[c].kind \in ConcreteKinds
            /\ harness_event'.knowledge[c].kind \in ConcreteKinds
            /\ now' > global_knowledge[c].timestamp )
          => event_bus'[Len(event_bus')].merged_knowledge[c] = harness_event'.knowledge[c]
      ]_vars

C3_StationImmutable ==
    [][\A c \in Coords :
          global_knowledge[c].kind = "Station" => global_knowledge'[c] = GlobalStation
      ]_vars

\* A report of a concrete value for a station-zone coordinate was merged.
C3_Witness ==
    /\ harness_event # NoEvent
    /\ \E c \in StationZone :
          /\ harness_event.knowledge[c].kind \in ConcreteKinds
          /\ global_knowledge[c].kind = "Station"

\* C4: when the global entry of a coordinate is Unknown and the docking agent
\* reports a concrete value for it, the snapshot of the resulting MergeComplete
\* holds exactly the reported value there.
C4_UnknownAcceptsConcrete ==
    [][\A c \in Coords :
          ( /\ MergeStep
            /\ global_knowledge[c].kind = "Unknown"
            /\ harness_event'.knowledge[c].kind \in ConcreteKinds )
          => event_bus'[Len(event_bus')].merged_knowledge[c] = harness_event'.knowledge[c]
      ]_vars

\* The first concrete report (a Resource) came back in the MergeComplete.
C4_Witness ==
    /\ harness_event # NoEvent
    /\ event_bus # <<>>
    /\ \E c \in NonZone :
          /\ harness_event.knowledge[c].kind = "Resource"
          /\ event_bus[Len(event_bus)].type = "MergeComplete"
          /\ event_bus[Len(event_bus)].merged_knowledge[c] = harness_event.knowledge[c]
          /\ \A d \in NonZone \ {c} : global_knowledge[d].kind = "Unknown"

(***************************************************************************)
(* Docking protocol: claims C5 - C7 (checked under Spec)                   *)
(***************************************************************************)
\* The places of the main channel that hold an ArrivedAtStation of robot i.
ArrivedPending(i) ==
    {n \in 1..Len(event_bus) :
        event_bus[n].type = "ArrivedAtStation" /\ event_bus[n].id = i}

\* C5: the Station's MergeComplete travels on the docking robot's own merge
\* channel and never on the shared main channel: no MergeComplete is ever
\* queued on the main channel.
C5_MergeCompleteNeverOnMainChannel ==
    \A n \in 1..Len(event_bus) : event_bus[n].type # "MergeComplete"

\* C6: a robot whose ArrivedAtStation the simulation loop dispatched while
\* the robot was still waiting (its request is no longer queued on the main
\* channel) leaves the wait through the MergeComplete arm, not by timeout.
C6_DispatchedDockingEndsByMergeComplete ==
    [][\A i \in DOMAIN state :
          ( /\ pc[i] = "waiting"
            /\ pc'[i] # "waiting"
            /\ ArrivedPending(i) = {} )
          => merge_result'[i] = "MergeComplete"
      ]_vars

\* C7: at every moment the main channel holds at most one ArrivedAtStation of
\* each robot (sent and not yet processed by the Station).
C7_AtMostOneMergeRequestInFlight ==
    \A i \in DOMAIN state : Cardinality(ArrivedPending(i)) <= 1

(***************************************************************************)
(* Docking protocol: claims C8 - C10 (checked under SpecRobot)             *)
(***************************************************************************)
\* The step in which robot i's recv_timeout returned and its match ran.
MergeWaitEnds(i) == pc[i] = "waiting" /\ pc'[i] # "waiting"

\* C8: no robot is ever back in its loop with status AtStation, the arm that
\* only sleeps and that no event leaves: whatever ends the wait (MergeComplete,
\* timeout, disconnection, unexpected event), the robot has left AtStation.
C8_NeverParkedAtStation ==
    \A i \in DOMAIN state : ~(pc[i] = "running" /\ state[i].status = "AtStation")

C10_FallbackResumesWork ==
    [][\A i \in DOMAIN state :
          ( /\ MergeWaitEnds(i)
            /\ recv_timeout(i) \in {"Timeout", "Disconnected"} )
          => /\ pc'[i] = "running"
             /\ state'[i] = [state[i] EXCEPT !.status = ActiveStatus(Type(i))]
             /\ knowledge'[i] = knowledge[i]
      ]_vars

(***************************************************************************)
(* Grid access and cargo: claims C11 - C13                                 *)
(***************************************************************************)
\* The Energy two robots carry together with the Energy still on the map.
EnergyCarried ==
    state[1].collected_resources["Energy"] + state[2].collected_resources["Energy"]
EnergyOnMap ==
    map_resources[<<0, 1>>].amount + map_resources[<<1, 1>>].amount

\* C11: when two Collectors with the same target go for the same deposit,
\* every removal of a deposit from the map is the step of exactly one robot
\* on that tile, which credits the deposit's amount to its cargo and sends one
\* CollectionData with that amount; a robot that reaches its write-lock scope
\* after the deposit is gone credits nothing, sends nothing and leaves the
\* map alone; cargo never grows without a removal in the same step, and the
\* Energy carried plus the Energy on the map stays what the map started with.
C11_DepositCollectedOnce ==
    /\ [](EnergyCarried + EnergyOnMap =
            InitialResources[<<0, 1>>].amount + InitialResources[<<1, 1>>].amount)
    /\ [][ /\ \A c \in Coords :
               map_resources'[c] # map_resources[c] =>
                  \E i \in DOMAIN state :
                     /\ Pos(state[i]) = c
                     /\ map_resources'[c] = NoResource
                     /\ state'[i].collected_resources =
                           [state[i].collected_resources EXCEPT
                               ![map_resources[c].resource_type] =
                                   @ + map_resources[c].amount]
                     /\ event_bus' = Append(event_bus,
                           CollectionData(i, c[1], c[2], map_resources[c].resource_type,
                                          map_resources[c].amount))
                     /\ \A j \in DOMAIN state \ {i} : state'[j] = state[j]
           /\ \A i \in DOMAIN state :
               (pc[i] = "locking" /\ pc'[i] # "locking" /\ ~resource_present(i)) =>
                  /\ state'[i].collected_resources = state[i].collected_resources
                  /\ event_bus' = event_bus
                  /\ map_resources' = map_resources
           /\ \A i \in DOMAIN state :
               state'[i].collected_resources # state[i].collected_resources =>
                  /\ map_resources[Pos(state[i])] # NoResource
                  /\ map_resources'[Pos(state[i])] = NoResource
         ]_vars

\* Both robots passed the read-lock scope on the same deposit; one collected
\* it, the other paid the action cost, found the tile empty in its
\* write-lock scope and went on with nothing.
C11_Witness ==
    \E i, j \in DOMAIN state :
        /\ i # j
        /\ DOMAIN state = GridRobots
        /\ state[i].collected_resources["Energy"] > 0
        /\ state[j].collected_resources = NoCargo
        /\ state[j].energy \in
              {state[j].max_energy - collection_action_cost,
               state[j].max_energy - collection_action_cost
                  - movement_energy_cost("Collection")}

\* C12: the amounts a robot carries never add up to more than max_capacity.
C12_CapacityInvariant ==
    \A i \in DOMAIN state : CargoTotal(state[i]) <= max_capacity

\* A ScientificRobot without modules that analysed the science point under
\* it twice: the first value is in its cargo, the second did not fit.
C12_Witness ==
    \E i \in DOMAIN state :
        /\ Type(i) = "Scientific"
        /\ robot_kind[i].modules = {}
        /\ state[i].status = "Analyzing"
        /\ state[i].energy = state[i].max_energy - 2 * analysis_action_cost
        /\ state[i].collected_resources["SciencePoints"] =
              InitialResources[<<0, 2>>].amount
        /\ CargoTotal(state[i]) + InitialResources[<<0, 2>>].amount > max_capacity

\* C13: when a Collector's write-lock scope finds a deposit of its target
\* type whose amount does not fit (carried total + amount > max_capacity),
\* the cargo is unchanged, the map keeps the deposit with its amount, the
\* robot's knowledge of the tile is not set to Walkable, and nothing is sent.
C13_AllOrNothingCollection ==
    [][\A i \in DOMAIN state :
          ( /\ pc[i] = "locking" /\ pc'[i] # "locking"
            /\ resource_present(i)
            /\ CargoTotal(state[i]) + get_resource(map_resources, Pos(state[i])).amount
                  > max_capacity )
          => /\ state'[i].collected_resources = state[i].collected_resources
             /\ map_resources' = map_resources
             /\ knowledge'[i][Pos(state[i])] =
                   TileResource(map_resources[Pos(state[i])].resource_type,
                                map_resources[Pos(state[i])].amount)
             /\ event_bus' = event_bus
      ]_vars

\* A Collector that carries the deposit it started on and paid for a second
\* collection, on the larger deposit, which is still on the map.
C13_Witness ==
    \E i \in DOMAIN state :
        /\ Type(i) = "Collection"
        /\ state[i].collected_resources["Energy"] = InitialResources[<<1, 1>>].amount
        /\ map_resources[<<1, 1>>] = NoResource
        /\ map_resources[<<0, 1>>] = InitialResources[<<0, 1>>]
        /\ state[i].energy + 2 * collection_action_cost
               + movement_energy_cost("Collection") \in
              {state[i].max_energy,
               state[i].max_energy - movement_energy_cost("Collection")}

(***************************************************************************)
(* Energy and the status machine: claims C14 - C16 (SpecRobot)             *)
(***************************************************************************)
\* The amounts use_energy is asked for, up to the dearest action of the model.
MaxEnergyAmount == 8

\* C14: use_energy(amount) on any reachable RobotState succeeds and takes
\* exactly amount when amount <= energy, fails and leaves energy at zero when
\* amount > energy; and every robot's energy is between 0 and its max_energy.
C14_EnergyFloor ==
    \A i \in DOMAIN state :
        /\ 0 <= state[i].energy
        /\ state[i].energy <= state[i].max_energy
        /\ \A amount \in 0..MaxEnergyAmount :
              IF amount <= state[i].energy
              THEN /\ can_use_energy(state[i], amount)
                   /\ use_energy(state[i], amount) =
                         [state[i] EXCEPT !.energy = state[i].energy - amount]
              ELSE /\ ~can_use_energy(state[i], amount)
                   /\ use_energy(state[i], amount) = [state[i] EXCEPT !.energy = 0]

\* A ScientificRobot of robot/ with a module, started with less energy than a
\* step of its way back costs: the step was refused and the energy is zero.
C14_Witness ==
    \E i \in DOMAIN state :
        /\ Type(i) = "Scientific" /\ IsLegacy(i)
        /\ robot_kind[i].modules # {}
        /\ state[i].max_energy = HarnessLowEnergy
        /\ state[i].status = "ReturningToStation"
        /\ state[i].energy = 0

\* The tick of robot i starts in its working status with the energy at or
\* under the threshold of its type or, for a Collector, with a full cargo.
MustReturn(i) ==
    /\ pc[i] = "running"
    /\ state[i].status = ActiveStatus(Type(i))
    /\ \/ state[i].energy <= low_energy_threshold(Type(i))
       \/ Type(i) = "Collection" /\ is_full(state[i])

\* C15: a tick that starts like that only switches the robot to
\* ReturningToStation: position, energy and cargo stay, the map stays, nothing
\* is sent. And every move of an Explorer in Exploring costs exactly its
\* movement cost of 1, so a cycle started with energy E makes E - threshold
\* moves and no more.
C15_LowEnergyTransition ==
    [][\A i \in DOMAIN state :
          /\ (MustReturn(i) /\ state'[i] # state[i]) =>
                /\ state'[i] = [state[i] EXCEPT !.status = "ReturningToStation"]
                /\ map_resources' = map_resources
                /\ event_bus' = event_bus
          /\ MustReturn(i) => (knowledge'[i] = knowledge[i] /\ pc'[i] = pc[i])
          /\ ( /\ Type(i) = "Exploration" /\ state[i].status = "Exploring"
               /\ Pos(state'[i]) # Pos(state[i]) ) =>
                /\ state[i].energy > low_energy_threshold("Exploration")
                /\ state'[i].energy = state[i].energy - 1
      ]_vars

\* An Explorer that left Exploring with exactly the threshold left, E -
\* threshold moves after it started with E.
C15_Witness ==
    \E i \in DOMAIN state :
        /\ Type(i) = "Exploration"
        /\ state[i].status = "ReturningToStation"
        /\ state[i].energy = low_energy_threshold("Exploration")
        /\ state[i].max_energy > low_energy_threshold("Exploration")
        /\ Pos(state[i]) # StationCenter

\* A Collector that left Collecting because its cargo was full.
CollectorFullReturns ==
    \E i \in DOMAIN state :
        /\ Type(i) = "Collection"
        /\ state[i].status = "ReturningToStation"
        /\ is_full(state[i])
        /\ state[i].energy > low_energy_threshold("Collection")

\* The main channel gained an event of the given type from robot i.
Sent(i, type) ==
    \E n \in (Len(event_bus) + 1)..Len(event_bus') :
        event_bus'[n].type = type /\ event_bus'[n].id = i

\* C16: a robot whose status is AtStation stands on the station center
\* (width / 2, height / 2); a robot becomes AtStation only from
\* ReturningToStation, on the center, without moving; and an
\* ArrivedAtStation of a robot is sent only in such a step.
C16_AtStationOnlyAtCenter ==
    /\ [](\A i \in DOMAIN state :
            state[i].status = "AtStation" =>
                Pos(state[i]) = <<map_width \div 2, map_height \div 2>>)
    /\ [][\A i \in DOMAIN state :
             /\ (state'[i].status = "AtStation" /\ state[i].status # "AtStation") =>
                   /\ state[i].status = "ReturningToStation"
                   /\ Pos(state[i]) = <<map_width \div 2, map_height \div 2>>
                   /\ Pos(state'[i]) = Pos(state[i])
             /\ Sent(i, "ArrivedAtStation") =>
                   /\ state[i].status = "ReturningToStation"
                   /\ state'[i].status = "AtStation"
                   /\ Pos(state[i]) = <<map_width \div 2, map_height \div 2>>
          ]_vars

\* A robot that walked back to the station, is AtStation in recv_timeout,
\* with its ArrivedAtStation on the main channel.
C16_Witness ==
    \E i \in DOMAIN state :
        /\ state[i].status = "AtStation"
        /\ pc[i] = "waiting"
        /\ state[i].energy < state[i].max_energy
        /\ \E n \in 1..Len(event_bus) :
              event_bus[n].type = "ArrivedAtStation" /\ event_bus[n].id = i

(***************************************************************************)
(* Deposits, collection and analysis: claims C17 - C19 (SpecRobot)         *)
(***************************************************************************)
\* C17: Map::remove_resource deletes the entry of an Energy or Minerals
\* deposit and leaves the store as it is for a SciencePoints deposit; and
\* every SciencePoints deposit the map started with is still there with its
\* amount, whatever the robots have collected and analysed.
C17_SciencePointsPersist ==
    \A c \in Coords :
        /\ InitialResources[c].resource_type = "SciencePoints" =>
               map_resources[c] = InitialResources[c]
        /\ get_resource(map_resources, c).resource_type = "SciencePoints" =>
               remove_resource(map_resources, c) = map_resources
        /\ get_resource(map_resources, c).resource_type \in {"Energy", "Minerals"} =>
               remove_resource(map_resources, c) =
                   [map_resources EXCEPT ![c] = NoResource]

\* A Scientist that analysed the science point under it, which is still on
\* the map.
C17_Witness ==
    \E i \in DOMAIN state :
        /\ Type(i) = "Scientific"
        /\ state[i].collected_resources["SciencePoints"] > 0
        /\ get_resource(map_resources, Pos(state[i])).resource_type = "SciencePoints"
        /\ get_resource(map_resources, Pos(state[i])).amount > 0

\* C18: when the write-lock scope of a Collector that can pay the action
\* cost finds a deposit of its target type with an amount a > 0 that fits,
\* then in that step the deposit is removed from the map, the cargo of that
\* type grows by a, the robot's knowledge of the tile becomes Walkable, one
\* CollectionData with the type and a is sent, and the robot does not move.
C18_SuccessfulCollection ==
    [][\A i \in DOMAIN state :
          ( /\ pc[i] = "locking" /\ pc'[i] # "locking"
            /\ resource_present(i)
            /\ can_use_energy(state[i], collection_action_cost)
            /\ CargoTotal(state[i]) + map_resources[Pos(state[i])].amount
                  <= max_capacity )
          => LET c == Pos(state[i])
                 a == map_resources[c].amount
                 rt == map_resources[c].resource_type
             IN  /\ a > 0
                 /\ rt = robot_kind[i].target_resource_type
                 /\ map_resources' = [map_resources EXCEPT ![c] = NoResource]
                 /\ state'[i] = [state[i] EXCEPT
                                    !.collected_resources[rt] = @ + a,
                                    !.energy = @ - collection_action_cost]
                 /\ knowledge'[i] = [knowledge[i] EXCEPT ![c] = TileWalkable]
                 /\ event_receiver =>
                        event_bus' = Append(event_bus, CollectionData(i, c[1], c[2], rt, a))
      ]_vars

\* A Collector that collected the deposit it started on.
C18_Witness ==
    \E i \in DOMAIN state :
        /\ Type(i) = "Collection"
        /\ Pos(state[i]) = <<0, 1>>
        /\ state[i].collected_resources["Energy"] = InitialResources[<<0, 1>>].amount
        /\ map_resources[<<0, 1>>] = NoResource
        /\ knowledge[i][<<0, 1>>] = TileWalkable
        /\ state[i].energy = state[i].max_energy - collection_action_cost

\* The tick of Scientist i analyses: it is in Analyzing above the threshold,
\* its knowledge, brought up to date from the map, shows a science point with
\* an amount under it, and it can pay the action cost and its modules'
\* passive costs.
Analyses(i) ==
    /\ Type(i) = "Scientific"
    /\ pc[i] = "running"
    /\ state[i].status = "Analyzing"
    /\ state[i].energy > low_energy_threshold("Scientific")
    /\ get_resource(map_resources, Pos(state[i])).resource_type = "SciencePoints"
    /\ get_resource(map_resources, Pos(state[i])).amount > 0
    /\ ~is_station(Pos(state[i]))
    /\ state[i].energy >=
          analysis_action_cost + get_module_passive_energy_cost(robot_kind[i].modules)
    /\ state'[i] # state[i]

\* What that analysis is worth: the deposit's amount and the modules' bonuses.
ScienceValue(i) ==
    get_resource(map_resources, Pos(state[i])).amount + module_bonus(robot_kind[i].modules)

\* C19: an analysing tick pays the action cost and the passive costs, leaves
\* the robot where it is and sends ScienceData with the value; the value is
\* added to the cargo if it fits; and a ScienceData with a value is sent only
\* in a step that added that value to the cargo.
C19_ScienceDataOnlyForRecordedValue ==
    [][\A i \in DOMAIN state :
          /\ Analyses(i) =>
                /\ state'[i].energy = state[i].energy - analysis_action_cost
                       - get_module_passive_energy_cost(robot_kind[i].modules)
                /\ Pos(state'[i]) = Pos(state[i])
                /\ map_resources' = map_resources
                /\ event_receiver =>
                       event_bus' = Append(event_bus,
                           ScienceData(i, state[i].x, state[i].y, ScienceValue(i)))
                /\ CargoTotal(state[i]) + ScienceValue(i) <= max_capacity =>
                       state'[i].collected_resources =
                           [state[i].collected_resources EXCEPT
                               !["SciencePoints"] = @ + ScienceValue(i)]
          /\ \A n \in (Len(event_bus) + 1)..Len(event_bus') :
                ( /\ event_bus'[n].type = "ScienceData"
                  /\ event_bus'[n].id = i
                  /\ event_bus'[n].amount > 0 ) =>
                     state'[i].collected_resources["SciencePoints"] =
                        state[i].collected_resources["SciencePoints"] + event_bus'[n].amount
      ]_vars

\* The part of C19 the code keeps: what an analysing tick pays, sends and,
\* when the value fits, records.
AnalysisEffect ==
    [][\A i \in DOMAIN state :
          Analyses(i) =>
             /\ state'[i].energy = state[i].energy - analysis_action_cost
                    - get_module_passive_energy_cost(robot_kind[i].modules)
             /\ Pos(state'[i]) = Pos(state[i])
             /\ map_resources' = map_resources
             /\ event_receiver =>
                    event_bus' = Append(event_bus,
                        ScienceData(i, state[i].x, state[i].y, ScienceValue(i)))
             /\ CargoTotal(state[i]) + ScienceValue(i) <= max_capacity =>
                    state'[i].collected_resources =
                        [state[i].collected_resources EXCEPT
                            !["SciencePoints"] = @ + ScienceValue(i)]
      ]_vars

(***************************************************************************)
(* Failed sends: claim C20 (SpecRobot)                                     *)
(***************************************************************************)
\* Robot i takes a step in which it sends on the main channel: it arrives,
\* an Explorer steps, a Collector collects, a Scientist analyses.
SendingStep(i) ==
    /\ pc[i] \in {"running", "locking"}
    /\ \/ state[i].status = "ReturningToStation" /\ state'[i].status = "AtStation"
       \/ /\ Type(i) = "Exploration" /\ state[i].status = "Exploring"
          /\ state'[i].energy < state[i].energy
       \/ /\ Type(i) = "Collection"
          /\ state'[i].collected_resources # state[i].collected_resources
       \/ Analyses(i)

\* C20: a robot whose send on the main channel fails (the receiver is gone)
\* leaves its loop and ends, in whatever status it was sending.
C20_FailedSendEndsTheTask ==
    [][\A i \in DOMAIN state :
          (SendingStep(i) /\ ~event_receiver) => pc'[i] = "stopped"
      ]_vars

\* The robots of robot/ do end on every failed send.
LegacyFailedSendEndsTheTask ==
    [][\A i \in DOMAIN state :
          (SendingStep(i) /\ ~event_receiver /\ IsLegacy(i)) => pc'[i] = "stopped"
      ]_vars

(***************************************************************************)
(* Shutdown bookkeeping: claim C21 (SpecApp)                               *)
(***************************************************************************)
\* App::update takes a Shutdown off the main channel in this step.
ProcessesShutdown ==
    /\ event_bus # <<>>
    /\ Head(event_bus).type = "Shutdown"
    /\ event_bus' = Tail(event_bus)

\* C21: when App::update processes Shutdown{id}, no entry for id remains in
\* the robot maps or in the merge-sender map, every other robot's entry and
\* sender are as before, and no later step brings an entry back.
C21_ShutdownBookkeeping ==
    [][ /\ ProcessesShutdown =>
            LET id == Head(event_bus).id
            IN  /\ id \notin DOMAIN app_robots'
                /\ id \notin robot_merge_senders'
                /\ DOMAIN app_robots' = (DOMAIN app_robots) \ {id}
                /\ \A j \in DOMAIN app_robots' : app_robots'[j] = app_robots[j]
                /\ robot_merge_senders' = robot_merge_senders \ {id}
                /\ collected_resources' = collected_resources
                /\ scientific_data' = scientific_data
        /\ DOMAIN app_robots' \subseteq DOMAIN app_robots
        /\ robot_merge_senders' \subseteq robot_merge_senders
      ]_vars

\* A Shutdown was processed for a robot that had an entry, another robot's
\* entry is still there, and events of both have been processed since.
C21_Witness ==
    /\ 0 \notin DOMAIN app_robots
    /\ 0 \notin robot_merge_senders
    /\ 1 \in DOMAIN app_robots
    /\ app_robots[1].status = "AtStation"
    /\ event_bus # <<>>
    /\ Head(event_bus) = LowEnergy(0, 0)

(***************************************************************************)
(* Moves without the energy for them: claim C22 (SpecRobot)                *)
(***************************************************************************)
\* What a move costs robot i: the movement cost of its type and, for a
\* ScientificRobot, the passive cost of its modules.
MoveCost(i) ==
    movement_energy_cost(Type(i))
       + (IF Type(i) = "Scientific"
          THEN get_module_passive_energy_cost(robot_kind[i].modules) ELSE 0)

\* Robot i is in its loop, working or on its way back, with less energy than
\* a move costs.
CannotPayMove(i) ==
    /\ pc[i] \in {"running", "locking"}
    /\ state[i].status \in {ActiveStatus(Type(i)), "ReturningToStation"}
    /\ state[i].energy < MoveCost(i)

\* C22: a robot, working or on its way back, whose energy is less than the
\* cost of a move stays where it is, and its thread goes on.
C22_InsufficientEnergyCancelsMove ==
    [][\A i \in DOMAIN state :
          CannotPayMove(i) =>
             /\ Pos(state'[i]) = Pos(state[i])
             /\ pc'[i] # "stopped"
      ]_vars

\* Where the code tests the energy before the step, the move is cancelled:
\* in the working arms and on the way back of ScientificRobot of robot/.
CheckedMovesAreCancelled ==
    [][\A i \in DOMAIN state :
          ( /\ CannotPayMove(i)
            /\ \/ state[i].status = ActiveStatus(Type(i))
               \/ IsLegacy(i) /\ Type(i) = "Scientific" ) =>
             Pos(state'[i]) = Pos(state[i])
      ]_vars

(***************************************************************************)
(* The Station's replies: claim C23 (SpecProcess)                          *)
(***************************************************************************)
\* A step in which process_event ran: the driver handed an event over and
\* took nothing off the channel.
ProcessStep ==
    /\ harness_event' # NoEvent
    /\ Len(event_bus') >= Len(event_bus)

\* C23: process_event of an ArrivedAtStation{id} sends exactly one event, a
\* MergeComplete with the same id; process_event of any other event sends
\* nothing and leaves the global knowledge as it is.
C23_StationReplyProtocol ==
    [][ProcessStep =>
          IF harness_event'.type = "ArrivedAtStation"
          THEN /\ Len(event_bus') = Len(event_bus) + 1
               /\ SubSeq(event_bus', 1, Len(event_bus)) = event_bus
               /\ event_bus'[Len(event_bus')].type = "MergeComplete"
               /\ event_bus'[Len(event_bus')].id = harness_event'.id
          ELSE /\ event_bus' = event_bus
               /\ global_knowledge' = global_knowledge
      ]_vars

\* An ArrivedAtStation of robot 1 was answered with one MergeComplete for
\* robot 1, and a Shutdown of robot 2 handed over next was answered with
\* nothing and left the fused knowledge in place.
C23_Witness ==
    /\ harness_event = Shutdown(2)
    /\ Len(event_bus) = 1
    /\ event_bus[1].type = "MergeComplete"
    /\ event_bus[1].id = 1
    /\ global_knowledge[<<0, 0>>].kind = "Obstacle"

(***************************************************************************)
(* Reports of Unknown: claim C24 (SpecStation)                             *)
(***************************************************************************)
\* The snapshot of the MergeComplete sent last.
LastSnapshot == event_bus'[Len(event_bus')].merged_knowledge

\* C24 as stated, last part: merging a knowledge that is Unknown everywhere
\* (RobotKnowledge::new) yields a snapshot that is Unknown everywhere except
\* Station tiles.
C24_EmptyKnowledgeYieldsEmptySnapshot ==
    [][(MergeStep /\ harness_event'.knowledge = RobotKnowledge_new) =>
          \A c \in Coords : LastSnapshot[c].kind \in {"Unknown", "Station"}
      ]_vars

\* C24, amended: a reported tile whose value is Unknown leaves the global
\* entry of its coordinate unchanged; a concrete entry is still in the
\* snapshot sent to an agent that reports Unknown there; and merging a
\* knowledge that is Unknown everywhere leaves the global view as it was, so
\* that the snapshot is the view fused so far, which on a Station that has
\* fused nothing is Unknown everywhere except Station tiles.
C24_UnknownReportsChangeNothing ==
    /\ [][\A c \in Coords :
             (MergeStep /\ harness_event'.knowledge[c].kind = "Unknown") =>
                /\ global_knowledge'[c] = global_knowledge[c]
                /\ global_knowledge[c].kind \in ConcreteKinds =>
                      LastSnapshot[c] = GlobalToTile(global_knowledge[c])
        ]_vars
    /\ [][(MergeStep /\ harness_event'.knowledge = RobotKnowledge_new) =>
             /\ global_knowledge' = global_knowledge
             /\ LastSnapshot = get_global_robot_knowledge(global_knowledge)
             /\ global_knowledge = DataManager_new =>
                   \A c \in Coords :
                      LastSnapshot[c] = IF is_station_area(c) THEN TileStation
                                        ELSE TileUnknown
        ]_vars

\* Robot 2 docked with a fresh knowledge after robot 1 had reported a deposit:
\* the deposit is in the global view and in the snapshot sent to robot 2.
C24_Witness ==
    /\ harness_event = ArrivedAtStation(2, RobotKnowledge_new)
    /\ event_bus # <<>>
    /\ \E c \in NonZone :
          /\ global_knowledge[c].kind = "Resource"
          /\ global_knowledge[c].robot_id = 1
          /\ event_bus[Len(event_bus)] =
                MergeComplete(2, get_global_robot_knowledge(global_knowledge))
          /\ event_bus[Len(event_bus)].merged_knowledge[c].kind = "Resource"

(***************************************************************************)
(* RobotKnowledge: claims C25, C26 (SpecKnowledge)                         *)
(***************************************************************************)
\* The cells of the grid a knowledge was created for.
GridOf(K) == (0..(K.width - 1)) \X (0..(K.height - 1))

\* C25: a knowledge just created for a width x height grid holds Station at
\* (width / 2, height / 2) and Unknown at every other coordinate of the grid;
\* the knowledge the robots of the model start with is the one created for
\* the map_width x map_height grid.
C25_FreshKnowledge ==
    /\ harness_event = NoEvent =>
          LET K == knowledge[HarnessRobot]
          IN  /\ get_tile_of(K, <<K.width \div 2, K.height \div 2>>) = TileStation
              /\ get_station_coords(K) \in GridOf(K)
              /\ \A c \in GridOf(K) \ {<<K.width \div 2, K.height \div 2>>} :
                    c \in DOMAIN K.map /\ get_tile_of(K, c) = TileUnknown
    /\ RobotKnowledge_new = RobotKnowledge_of(map_width, map_height).map

\* A knowledge created for a grid with an odd and an even side.
C25_Witness ==
    /\ harness_event = NoEvent
    /\ knowledge[HarnessRobot].width = 3
    /\ knowledge[HarnessRobot].height = 2
    /\ get_tile_of(knowledge[HarnessRobot], <<1, 1>>) = TileStation
    /\ get_tile_of(knowledge[HarnessRobot], <<2, 1>>) = TileUnknown

\* The driver's last call was update_tile, and this is what it was called with.
UpdatedTile == harness_event'.type = "update_tile"

\* C26: update_tile for a coordinate outside the grid leaves the knowledge as
\* it is, and get_tile of that coordinate returns Unknown; update_tile(x, y, v)
\* inside the grid is followed by get_tile(x, y) = v and changes no other
\* coordinate; the Station's merge of a knowledge with entries outside its
\* grid takes none of them and answers as for the same knowledge without them.
C26_OutOfBoundsUpdatesDropped ==
    /\ [][UpdatedTile =>
             LET K == knowledge[HarnessRobot]
                 c == harness_event'.c
             IN  IF c \in GridOf(K)
                 THEN /\ get_tile_of(knowledge'[HarnessRobot], c) = harness_event'.info
                      /\ \A d \in DOMAIN K.map \ {c} :
                            get_tile_of(knowledge'[HarnessRobot], d) = get_tile_of(K, d)
                 ELSE /\ knowledge' = knowledge
                      /\ get_tile_of(knowledge'[HarnessRobot], c) = TileUnknown
        ]_vars
    /\ [][harness_event'.type = "ArrivedAtStation" =>
             /\ DOMAIN global_knowledge' = Coords
             /\ global_knowledge' =
                   merge_robot_knowledge(global_knowledge, HarnessRobot,
                       [c \in (DOMAIN harness_event'.knowledge) \cap Coords |->
                           harness_event'.knowledge[c]], now')
             /\ knowledge' = knowledge
        ]_vars
    /\ [](\A c \in ProbeCoords :
             c \notin GridOf(knowledge[HarnessRobot]) =>
                get_tile_of(knowledge[HarnessRobot], c) = TileUnknown)

\* update_tile was called outside the grid of a knowledge that had been
\* updated inside it before, and the knowledge is what it was.
C26_Witness ==
    /\ harness_event = UpdateTileCall(<<map_width, 0>>, TileObstacle)
    /\ knowledge[HarnessRobot].width = map_width
    /\ get_tile_of(knowledge[HarnessRobot], <<0, 0>>) = TileWalkable
    /\ get_tile_of(knowledge[HarnessRobot], <<map_width, 0>>) = TileUnknown

\* A knowledge of a wider grid, with an Obstacle recorded outside the
\* Station's grid, was merged: the Station's view has no such entry.
StationDroppedOutOfBounds ==
    /\ harness_event.type = "ArrivedAtStation"
    /\ <<map_width, 0>> \in DOMAIN harness_event.knowledge
    /\ harness_event.knowledge[<<map_width, 0>>] = TileObstacle
    /\ harness_event.knowledge[<<0, 0>>] = TileWalkable
    /\ global_knowledge[<<0, 0>>].kind = "Walkable"
    /\ DOMAIN global_knowledge = Coords

(***************************************************************************)
(* Observation: claim C27 (SpecRobot)                                      *)
(***************************************************************************)
\* The step is one of a robot thread, not of the driver.
RobotStep ==
    /\ merge_channel' = merge_channel
    /\ robot_merge_senders' = robot_merge_senders
    /\ event_receiver' = event_receiver
    /\ Len(event_bus') >= Len(event_bus)

\* Robot i ends a tick of its working arm that got past the test of the
\* energy (and, for a CollectionRobot, of the cargo) at its top.
ActiveTick(i) ==
    /\ RobotStep
    /\ state[i].status = ActiveStatus(Type(i))
    /\ \/ pc[i] = "locking"
       \/ /\ pc[i] = "running"
          /\ state[i].energy > low_energy_threshold(Type(i))
          /\ ~(Type(i) = "Collection" /\ is_full(state[i]))
    /\ pc'[i] # "locking"

\* The tile of the robot and the neighbours inside the grid.
Surroundings(p) ==
    {p} \cup {c \in Coords : abs_diff(c[1], p[1]) + abs_diff(c[2], p[2]) = 1}

\* What the ground truth classifies c as at the end of the step.
Classified(c) ==
    IF is_station(c) THEN TileStation
    ELSE IF is_obstacle(c) THEN TileObstacle
    ELSE IF get_resource(map_resources', c).amount > 0
    THEN TileResource(get_resource(map_resources', c).resource_type,
                      get_resource(map_resources', c).amount)
    ELSE TileWalkable

\* C27: every tick of a working arm leaves, for the robot's tile and each of
\* its neighbours inside the grid, the classification of the ground truth in
\* the robot's knowledge (Station before Obstacle before Resource with an
\* amount before Walkable), and leaves every other coordinate as it was.
C27_ObservationClassification ==
    [][\A i \in DOMAIN state :
          ActiveTick(i) =>
             /\ \A c \in Surroundings(Pos(state[i])) : knowledge'[i][c] = Classified(c)
             /\ \A c \in Coords \ Surroundings(Pos(state[i])) :
                   knowledge'[i][c] = knowledge[i][c]
      ]_vars

\* The same for every tick but the one in which a CollectionRobot collects.
ObservationUnlessCollected ==
    [][\A i \in DOMAIN state :
          ( /\ ActiveTick(i)
            /\ state'[i].collected_resources = state[i].collected_resources
                  \/ Type(i) # "Collection" ) =>
             /\ \A c \in Surroundings(Pos(state[i])) : knowledge'[i][c] = Classified(c)
             /\ \A c \in Coords \ Surroundings(Pos(state[i])) :
                   knowledge'[i][c] = knowledge[i][c]
      ]_vars

(***************************************************************************)
(* The station zone of the Map: claim C28 (SpecMap)                        *)
(***************************************************************************)
\* C28: in every state of the Map, from its construction and the spawning
\* of the resources on, every cell of the 3x3 station zone centred on
\* (width / 2, height / 2) is walkable and holds no resource.
C28_StationZoneInvariant ==
    /\ station_area = StationZone
    /\ \A c \in station_area :
          /\ ~is_obstacle(c)
          /\ get_resource(map_resources, c) = NoResource

\* The part the Map keeps: no cell of the station zone is an obstacle, and
\* every cell that holds a deposit is walkable.
StationZoneWalkable ==
    /\ station_area = StationZone
    /\ \A c \in station_area : ~is_obstacle(c)
    /\ \A c \in Coords : get_resource(map_resources, c) # NoResource => ~is_obstacle(c)

(***************************************************************************)
(* The Explorer's reports: claim C29 (SpecRobot)                           *)
(***************************************************************************)
\* The places of the main channel, after the step, that hold an
\* ExplorationData of robot i sent in the step.
ExplorationDataSent(i) ==
    {n \in (Len(event_bus) + 1)..Len(event_bus') :
        event_bus'[n].type = "ExplorationData" /\ event_bus'[n].id = i}

\* C29: while the receiver of the main channel is alive, a step of an
\* ExplorationRobot that changes its position sends exactly one
\* ExplorationData, with the new position, and a step that does not change
\* its position sends none.
C29_OneReportPerMove ==
    [][\A i \in DOMAIN state :
          (Type(i) = "Exploration" /\ RobotStep /\ event_receiver) =>
             IF Pos(state'[i]) # Pos(state[i])
             THEN /\ Cardinality(ExplorationDataSent(i)) = 1
                  /\ \A n \in ExplorationDataSent(i) :
                        <<event_bus'[n].x, event_bus'[n].y>> = Pos(state'[i])
             ELSE ExplorationDataSent(i) = {}
      ]_vars

\* What the arm Exploring does: one ExplorationData with the position after
\* the step whenever the step was taken (it paid for it), none otherwise.
ExploringReportsEachStep ==
    [][\A i \in DOMAIN state :
          ( /\ Type(i) = "Exploration" /\ RobotStep /\ event_receiver
            /\ state[i].status = "Exploring" ) =>
             IF state'[i].energy < state[i].energy
             THEN /\ Cardinality(ExplorationDataSent(i)) = 1
                  /\ \A n \in ExplorationDataSent(i) :
                        <<event_bus'[n].x, event_bus'[n].y>> = Pos(state'[i])
             ELSE ExplorationDataSent(i) = {} /\ Pos(state'[i]) = Pos(state[i])
      ]_vars

(***************************************************************************)
(* Recharging: claim C30 (SpecRobot)                                       *)
(***************************************************************************)
\* C30: the energy of a robot rises only in the step in which, docked at the
\* station and waiting for the reply, it receives a MergeComplete; every
\* other step leaves it as it is or lowers it.
C30_RechargeOnlyAtStation ==
    [][\A i \in DOMAIN state :
          state'[i].energy > state[i].energy =>
             /\ pc[i] = "waiting"
             /\ state[i].status = "AtStation"
             /\ Pos(state[i]) = StationCenter
             /\ recv_timeout(i) = "MergeComplete"
             /\ Pos(state'[i]) = StationCenter
      ]_vars

\* A robot that had worked its energy down to the threshold and returned
\* has received a MergeComplete at the station and has its full energy.
C30_Witness ==
    \E i \in DOMAIN state :
        /\ merge_result[i] = "MergeComplete"
        /\ pc[i] = "running"
        /\ state[i].status = ActiveStatus(Type(i))
        /\ Pos(state[i]) = StationCenter
        /\ state[i].max_energy > low_energy_threshold(Type(i))
        /\ state[i].energy = state[i].max_energy

(***************************************************************************)
(* A Collector and an Explorer on one Map, docking at the Station of the   *)
(* App: the Collector starts on the deposit at (0,1), the Explorer next to *)
(* it, and App::update hands their ArrivedAtStation to the Station.        *)
(***************************************************************************)
FusionRobots == {1, 2}

InitFusion ==
    /\ global_knowledge = DataManager_new
    /\ now = 0
    /\ event_bus = <<>>
    /\ harness_event = NoEvent
    /\ event_receiver = TRUE
    /\ map_resources = InitialResources
    /\ \E m \in {"robot", "behavior"} :
          robot_kind = [i \in FusionRobots |->
                            IF i = 1 THEN Kind("Collection", "robot", "Energy", {})
                            ELSE Kind("Exploration", m, "none", {})]
    /\ state = [i \in FusionRobots |->
                   IF i = 1
                   THEN RobotState_new(0, 1, "Collecting",
                                       MaxEnergyOf("Collection") + HarnessExtraEnergy)
                   ELSE RobotState_new(1, 1, "Exploring",
                                       MaxEnergyOf("Exploration") + HarnessExtraEnergy)]
    /\ knowledge = [i \in FusionRobots |-> RobotKnowledge_new]
    /\ visited = [i \in FusionRobots |-> {}]
    /\ pc = [i \in FusionRobots |-> "running"]
    /\ merge_result = [i \in FusionRobots |-> "none"]
    /\ merge_channel = [i \in FusionRobots |-> <<>>]
    /\ map_guard = [i \in FusionRobots |-> "none"]
    /\ robot_merge_senders = FusionRobots
    /\ app_robots = state
    /\ collected_resources = NoTotals
    /\ scientific_data = 0

NextFusion ==
    \/ \E i \in DOMAIN state : Exploring(i)
    \/ \E i \in DOMAIN state : Collecting(i)
    \/ \E i \in DOMAIN state : Returning(i)
    \/ \E i \in DOMAIN state : Arrive(i)
    \/ \E i \in DOMAIN state : AwaitMerge(i)
    \/ AppUpdate

SpecFusion == InitFusion /\ [][NextFusion]_vars

(***************************************************************************)
(* Directed movement order: claim C31 (SpecMove)                           *)
(***************************************************************************)
\* The driver called move_towards_target in this step.
MoveTowardsStep ==
    /\ harness_event' # harness_event
    /\ harness_event'.type = "move_towards_target"

\* The candidates in the order the claim gives for a call from p to target:
\* the axis with the larger absolute offset, the other axis, then Up, Down,
\* Left, Right (axis_first is "x" or "y").
OffsetOrder(p, target, axis_first) ==
    LET horizontal == IF target[1] > p[1] THEN "Right"
                      ELSE IF target[1] < p[1] THEN "Left" ELSE "none"
        vertical == IF target[2] > p[2] THEN "Down"
                    ELSE IF target[2] < p[2] THEN "Up" ELSE "none"
    IN  (IF axis_first = "x" THEN <<horizontal, vertical>> ELSE <<vertical, horizontal>>)
        \o DirectionAll

\* The axes the claim lets go first: the one with the larger absolute offset,
\* either when the offsets are equal.
LargerAxes(p, target) ==
    {a \in {"x", "y"} :
        IF a = "x" THEN abs_diff(target[1], p[1]) >= abs_diff(target[2], p[2])
        ELSE abs_diff(target[2], p[2]) >= abs_diff(target[1], p[1])}

\* C31: the direction move_towards_target returns is the first candidate, in
\* the order larger-offset axis, other axis, Up, Down, Left, Right, whose tile
\* is in bounds, not an obstacle of the Map or of the knowledge, and another
\* tile than the robot's; when there is none the random tries decide.
C31_DirectedMovementOrder ==
    [][ MoveTowardsStep =>
            LET call == harness_event'
                k == knowledge[HarnessRobot]
            IN  \E a \in LargerAxes(call.from, call.target) :
                   LET first == FirstStep(OffsetOrder(call.from, call.target, a),
                                          call.from, k)
                   IN  first # "none" => call.dir = first
      ]_vars

\* The order of the code: the horizontal direction, the vertical one, then
\* Up, Down, Left, Right, whatever the offsets are; the direction returned
\* can be stepped on whenever one of the four can.
HorizontalFirstOrder ==
    [][ MoveTowardsStep =>
            LET call == harness_event'
                k == knowledge[HarnessRobot]
                first == FirstStep(OffsetOrder(call.from, call.target, "x"), call.from, k)
            IN  /\ first # "none" => call.dir = first /\ CanStep(call.from, call.dir, k)
                /\ first = "none" => \A d \in Directions : ~CanStep(call.from, d, k)
      ]_vars

(***************************************************************************)
(* Exploration movement tiers: claim C32 (SpecRobot)                       *)
(***************************************************************************)
\* Robot i knows no target on knowledge k: an Explorer never has one, a
\* Collector has none when k shows no deposit of its type, a Scientist when
\* k shows no science point.
NoTargetKnown(i, k) ==
    CASE Type(i) = "Collection" -> find_nearest_target_resource(i, k) = {}
      [] Type(i) = "Scientific" -> find_nearest_known_science_point(i, k) = {}
      [] OTHER -> TRUE

\* Robot i, working and without a target, moves to another tile in this
\* step; knowledge'[i] is the knowledge it chose the direction on.
ExplorationMove(i) ==
    /\ pc[i] \in {"running", "locking"}
    /\ state[i].status = ActiveStatus(Type(i))
    /\ Pos(state'[i]) # Pos(state[i])
    /\ NoTargetKnown(i, knowledge'[i])

\* The neighbours of p in the four directions.
Neighbours(p) == {next_position(p, d) : d \in Directions} \ {p}

\* The tile n robot i moves to is of the best tier its neighbours offer on
\* knowledge k and visited set v.
BestTier(p, n, k, v) ==
    LET resource_tier == {c \in Neighbours(p) : get_tile(k, c).kind = "Resource" /\ c \notin v}
        walkable_tier == {c \in Neighbours(p) :
                             get_tile(k, c).kind \in {"Walkable", "Station"} /\ c \notin v}
        fallback_tier == {c \in Neighbours(p) : get_tile(k, c).kind # "Obstacle" /\ c \in v}
    IN  /\ get_tile(k, n).kind # "Obstacle"
        /\ IF resource_tier # {} THEN n \in resource_tier
           ELSE IF walkable_tier # {} THEN n \in walkable_tier
           ELSE n \in fallback_tier

\* C32: a robot of any role that moves without a known target goes to an
\* unvisited resource tile if a neighbour is one, else to an unvisited
\* Walkable or Station neighbour if there is one, else to a visited neighbour
\* that is no obstacle; never to a known obstacle.
C32_ExplorationMovementTiers ==
    [][ \A i \in DOMAIN state :
            ExplorationMove(i) =>
                BestTier(Pos(state[i]), Pos(state'[i]), knowledge'[i], visited[i])
      ]_vars

\* The tiers are those of smart_direction, which the Explorer and the
\* Scientist call; the Collector scores its neighbours itself.
SmartDirectionTiers ==
    [][ \A i \in DOMAIN state :
            ExplorationMove(i) /\ Type(i) # "Collection" =>
                BestTier(Pos(state[i]), Pos(state'[i]), knowledge'[i], visited[i])
      ]_vars

(***************************************************************************)
(* Critical sections of the Map's lock: claims C33 (SpecLock) and C35      *)
(* (LiveSpecLock)                                                          *)
(***************************************************************************)
\* Robot i ends its write-lock scope in this step.
LeavesWriteSection(i) == pc[i] = "writing" /\ pc'[i] # "writing"

\* C33: a robot that sleeps or waits in recv_timeout for its merge reply
\* holds no guard of the Map, shared or exclusive; and a write-lock scope
\* only reads the robot's tile again, decides, and removes the deposit of
\* that tile or leaves the Map as it is, before it gives the guard up: the
\* robot neither moves nor sends nor changes its status inside it.
C33_CriticalSectionDiscipline ==
    /\ [](\A i \in DOMAIN pc : pc[i] \in {"sleeping", "waiting"} => map_guard[i] = "none")
    /\ [][ \A i \in DOMAIN pc :
              LeavesWriteSection(i) =>
                 /\ map_guard[i] = "write" /\ map_guard'[i] = "none"
                 /\ map_resources' \in {map_resources,
                                        remove_resource(map_resources, Pos(state[i]))}
                 /\ state'[i] = state[i]
                 /\ event_bus' = event_bus
                 /\ pc'[i] \in {"sleeping", "read_wait"}
         ]_vars

\* One robot is asleep after its section, the other waits for its merge
\* reply, and a deposit has been collected under the write guard.
C33_Witness ==
    /\ \E i, j \in DOMAIN pc : pc[i] = "sleeping" /\ pc[j] = "waiting"
    /\ map_resources # InitialResources

ResumesWork(i) ==
    /\ pc[i] = "waiting"
    /\ state[i].status = "AtStation"
    /\ state'[i].status = ActiveStatus(Type(i))

\* C34: when an Explorer or a Scientist becomes active again after docking,
\* by MergeComplete, by another event or by the timeout, its visited set is
\* empty.
C34_VisitedSetClearedOnResume ==
    [][ \A i \in DOMAIN state :
            ResumesWork(i) /\ Type(i) \in {"Exploration", "Scientific"} =>
                visited'[i] = {}
      ]_vars

\* The same for every robot but the ScientificRobot of robot/behavior/, whose
\* return with full cargo is the one way back that keeps the set.
VisitedSetClearedElsewhere ==
    [][ \A i \in DOMAIN state :
            /\ ResumesWork(i)
            /\ Type(i) \in {"Exploration", "Scientific"}
            /\ ~(Type(i) = "Scientific" /\ ~IsLegacy(i))
            => visited'[i] = {}
      ]_vars

(***************************************************************************)
(* Position safety: claim C36 (SpecRobot)                                  *)
(***************************************************************************)
\* C36: every robot stands inside the grid on a cell that is not an obstacle
\* of the Map, whatever arm made its last step.
C36_PositionSafety ==
    \A i \in DOMAIN state :
        /\ Pos(state[i]) \in Coords
        /\ Pos(state[i]) \notin Obstacles

\* A robot on its way back stands next to the obstacle cell, a step away from
\* where it turned back, with the obstacle in its knowledge.
C36_Witness ==
    \E i \in DOMAIN state :
        /\ state[i].status = "ReturningToStation"
        /\ \E d \in Directions : next_position(Pos(state[i]), d) \in Obstacles
        /\ \E c \in Obstacles : get_tile(knowledge[i], c).kind = "Obstacle"
        /\ state[i].energy < low_energy_threshold(Type(i))

(***************************************************************************)
(* Conservation of consumables: claim C37 (SpecGrid)                       *)
(***************************************************************************)
RECURSIVE ConsumablesOn(_, _)
\* The Energy and Minerals the store res holds on the cells of cs.
ConsumablesOn(res, cs) ==
    IF cs = {} THEN 0
    ELSE LET c == CHOOSE c \in cs : TRUE
         IN  (IF res[c].resource_type \in {"Energy", "Minerals"} THEN res[c].amount ELSE 0)
             + ConsumablesOn(res, cs \ {c})

\* The events a step put on the main channel.
SentInStep ==
    IF Len(event_bus') > Len(event_bus)
    THEN SubSeq(event_bus', Len(event_bus) + 1, Len(event_bus'))
    ELSE <<>>

RECURSIVE CollectedAmount(_)
\* The sum of the amounts of the CollectionData events of the sequence evs.
CollectedAmount(evs) ==
    IF evs = <<>> THEN 0
    ELSE (IF Head(evs).type = "CollectionData" THEN Head(evs).amount ELSE 0)
         + CollectedAmount(Tail(evs))

\* C37: the Energy and Minerals on the Map never grow, and every step takes
\* from the Map exactly the amount of the CollectionData events it sends, so
\* that what is on the Map plus what has been sent stays the initial total;
\* every CollectionData carries the target type of the Collector that sent
\* it, which is Energy or Minerals.
C37_ConsumablesConserved ==
    /\ [][ ConsumablesOn(map_resources, Coords)
             = ConsumablesOn(map_resources', Coords) + CollectedAmount(SentInStep) ]_vars
    /\ [](\A n \in DOMAIN event_bus :
            event_bus[n].type = "CollectionData" =>
               /\ event_bus[n].resource_type \in {"Energy", "Minerals"}
               /\ event_bus[n].resource_type =
                     robot_kind[event_bus[n].id].target_resource_type)

\* Both deposits of the target type are gone from the Map, each taken by
\* another robot, and the report of one of the collections is in flight.
C37_Witness ==
    /\ ConsumablesOn(map_resources, Coords) = 0
    /\ \A i \in DOMAIN state : state[i].collected_resources["Energy"] > 0
    /\ \E n \in DOMAIN event_bus : event_bus[n].type = "CollectionData"

(***************************************************************************)
(* Collected deposits in the fused view: claim C38 (SpecFusion)            *)
(***************************************************************************)
\* The Station's view shows tile c as Walkable, the Map holds no deposit
\* there, and a Collector that has collected knows c as Walkable: its report
\* is what the Station merged.
CollectedAndMerged(c) ==
    /\ global_knowledge[c].kind = "Walkable"
    /\ get_resource(map_resources, c) = NoResource
    /\ InitialResources[c] # NoResource
    /\ \E i \in DOMAIN state :
          /\ Type(i) = "Collection"
          /\ get_tile(knowledge[i], c).kind = "Walkable"

\* C38: once the Station merged the Collector's report of a tile it emptied,
\* no later merge puts a Resource on that tile in the Station's view.
C38_NoResurrection ==
    [][ \A c \in Coords :
            CollectedAndMerged(c) => global_knowledge'[c].kind # "Resource" ]_vars

(***************************************************************************)
(* The way back: claim C39 (LiveSpecRobot)                                 *)
(***************************************************************************)
\* C39: a robot that is ReturningToStation is AtStation later, whatever its
\* energy.
C39_ReturnProgress ==
    \A i \in {HarnessRobot} :
        state[i].status = "ReturningToStation" ~> state[i].status = "AtStation"

\* The same for every robot but the ScientificRobot of robot/, which pays for
\* the step back before it looks for a direction.
ReturnProgressElsewhere ==
    \A i \in {HarnessRobot} :
        (state[i].status = "ReturningToStation" /\ ~(IsLegacy(i) /\ Type(i) = "Scientific"))
            ~> state[i].status = "AtStation"

====
